---- MODULE Spec2Model ----
(***************************************************************************)
(* TaskMint: the Timer view (start / pause / stop time tracking against a  *)
(* task), its tick interval, and the time_entries table it writes; the     *)
(* Dashboard and Tasks pages with their completion toggle, the task filter *)
(* and the dashboard stats; the Analytics page and its snapshot.           *)
(*                                                                         *)
(* The component state is the useState cells of each page; the repository  *)
(* is the tasks and time_entries tables behind supabase; a repository call *)
(* is a request in flight whose response (data or error) arrives in a      *)
(* later step.                                                             *)
(***************************************************************************)
EXTENDS Integers, Sequences, FiniteSets, Bags, TLC

\* Bounds of the model.
MaxEntries == 2      \* rows the time_entries table may hold
MaxTime == 2         \* cap of the elapsed counter (seconds ticked)
MaxNow == 1          \* cap of the wall clock
MaxPending == 2      \* repository calls in flight at once
MaxIntervals == 3    \* interval ids handed out by setInterval
MaxClock == 3        \* cap of the wall clock on the Dashboard and Tasks pages
MaxTaskPending == 2  \* requests of the Dashboard and Tasks pages in flight at once
MaxTasks == 2        \* rows of the tasks table behind the task filter and the analytics
MaxRows == 3         \* rows of a task list behind the Dashboard stats
MaxDrift == 1        \* instants the clock may advance while the Analytics page is routed

\* null / undefined: an absent end_time, duration, entry id or interval id.
Null == -1

\* The user's tasks with completed = false, as fetchTasks returns them.
TaskIds == {"t1", "t2"}

\* No toast was raised by the step.
NoToast == "none"

\* The toasts raised with variant: "destructive".
Destructive ==
  {"Select a task", "Failed to start timer.", "Failed to stop timer.",
   "Failed to fetch tasks."}

VARIABLES
  mounted,         \* the Timer view exists
  tasks,           \* useState<Task[]>: the ids of the fetched tasks
  fetchingTasks,   \* fetchTasks() of this view is awaiting its response
  selectedTaskId,  \* useState<string>('')
  isRunning,       \* useState(false)
  currentTime,     \* useState(0): the elapsed counter
  activeEntryId,   \* useState<string | null>(null)
  intervalRef,     \* useRef: the id of the last interval set, or Null
  intervals,       \* the interval ids scheduled in the event loop
  effectDep,       \* the isRunning value the [isRunning] effect last ran for
  time_entries,    \* the time_entries table: row i has id i
  pending,         \* bag of the insert / update requests in flight
  now,             \* the wall clock, new Date()
  toast,           \* the toast raised by the last step, NoToast when it raised none
  ticks,           \* ticks fired while isRunning since the last confirmed start
  tasks_table,     \* the tasks table, in the order the rows were inserted
  page,            \* the page routed: "Timer", "Dashboard", "Tasks" or "Analytics"
  pageTasks,       \* useState<Task[]>: the tasks of the Dashboard / Tasks page
  loading,         \* useState(true) of the Dashboard / Tasks page
  searchQuery,     \* Tasks: useState('')
  statusFilter,    \* Tasks: useState('all')
  priorityFilter,  \* Tasks: useState('all')
  filteredTasks,   \* Tasks: useState<Task[]>([])
  stats,           \* Dashboard: useState<Stats>
  taskPending,     \* bag of the requests of these pages in flight
  analytics,       \* Analytics: useState<AnalyticsData>
  analyticsCall    \* Analytics: the locals of the fetchAnalytics() call

vars == <<mounted, tasks, fetchingTasks, selectedTaskId, isRunning, currentTime,
          activeEntryId, intervalRef, intervals, effectDep, time_entries,
          pending, now, toast, ticks, tasks_table, page, pageTasks,
          loading, searchQuery, statusFilter, priorityFilter, filteredTasks, stats,
          taskPending, analytics, analyticsCall>>

timerVars == <<isRunning, currentTime, activeEntryId>>
viewVars == <<mounted, tasks, fetchingTasks, selectedTaskId>>
intervalVars == <<intervalRef, intervals, effectDep>>
repoVars == <<time_entries, pending>>
filterVars == <<searchQuery, statusFilter, priorityFilter, filteredTasks>>
pageVars == <<page, pageTasks, loading, filterVars, stats>>
taskRepoVars == <<tasks_table, taskPending>>
analyticsVars == <<analytics, analyticsCall>>
\* What the Timer view neither reads nor writes.
nonTimerVars == <<pageVars, taskRepoVars, analyticsVars>>
\* The Timer view and its table.
timerSide == <<viewVars, timerVars, intervalVars, repoVars, ticks>>
\* What the Dashboard and Tasks pages neither read nor write.
notOnPage == <<timerSide, analyticsVars>>

----------------------------------------------------------------------------
\* The repository rows and requests.

\* The row startTimer inserts: end_time and duration are left out.
InsertRow(task, t) ==
  [task_id |-> task, start_time |-> t, end_time |-> Null, duration |-> Null]

\* UpdatePatch as a patch that closes the entry without its duration.
UpdatePatch_NoDuration(t, elapsed) == [end_time |-> t, duration |-> Null]

\* UpdatePatch as a patch that records the duration without the end_time.
UpdatePatch_NoEndTime(t, elapsed) == [end_time |-> Null, duration |-> elapsed]

\* UpdatePatch as a patch built with `duration: currentTime || null`: a
\* counter at 0 is sent as no duration.
UpdatePatch_FalsyDuration(t, elapsed) ==
  [end_time |-> t, duration |-> IF elapsed = 0 THEN Null ELSE elapsed]

\* The patch stopTimer sends: end_time = new Date(), duration = currentTime.
UpdatePatch(t, elapsed) == [end_time |-> t, duration |-> elapsed]

InsertRequest(task, t) ==
  [kind |-> "insert", row |-> InsertRow(task, t), id |-> Null,
   patch |-> UpdatePatch(Null, Null), live |-> TRUE]

UpdateRequest(id, t, elapsed) ==
  [kind |-> "update", row |-> InsertRow("", Null), id |-> id,
   patch |-> UpdatePatch(t, elapsed), live |-> TRUE]

IsOpen(e) == e.end_time = Null /\ e.duration = Null
IsClosed(e) == e.end_time # Null /\ e.duration # Null
OpenEntries == {i \in DOMAIN time_entries : IsOpen(time_entries[i])}

Requests == BagToSet(pending)
Inserts == {r \in Requests : r.kind = "insert"}
Updates == {r \in Requests : r.kind = "update"}
One(r) == SetToBag({r})

RECURSIVE InsertsInFlight(_)
InsertsInFlight(S) ==
  IF S = {} THEN 0
  ELSE LET r == CHOOSE x \in S : TRUE
       IN  (IF r.kind = "insert" THEN pending[r] ELSE 0) + InsertsInFlight(S \ {r})

\* The requests of a view that has been unmounted: their continuations still
\* run, but their setState calls reach no component.
Orphaned(B) ==
  LET dead(r) == [r EXCEPT !.live = FALSE]
      alive(r) == [r EXCEPT !.live = TRUE]
      n(r) == IF r \in DOMAIN B THEN B[r] ELSE 0
  IN  [r \in {dead(x) : x \in DOMAIN B} |-> n(dead(r)) + n(alive(r))]

----------------------------------------------------------------------------
\* The rendered controls.

\* selectedTask = tasks.find(task => task.id === selectedTaskId)
selectedTask == selectedTaskId \in tasks

StartShown == mounted /\ selectedTask /\ ~isRunning /\ activeEntryId = Null
PauseShown == mounted /\ selectedTask /\ isRunning
StopShown == mounted /\ selectedTask /\ activeEntryId # Null
SelectEnabled == mounted /\ ~isRunning

----------------------------------------------------------------------------
\* The tick interval and the [isRunning] effect.

\* setInterval returns an id that is in use nowhere.
FreshInterval ==
  CHOOSE i \in 1..MaxIntervals :
    /\ i \notin intervals \cup {intervalRef}
    /\ \A j \in 1..MaxIntervals :
         j \notin intervals \cup {intervalRef} => i <= j

\* clearInterval(intervalRef.current) when intervalRef.current is set.
Cleared == intervals \ {intervalRef}

EffectPending == mounted /\ effectDep # isRunning

----------------------------------------------------------------------------
\* The tasks table and the pages that list it.

\* The instants of one calendar day.
TicksPerDay == 2

\* description: null, kept apart from every text of characters.
NoDescription == <<"null">>

\* category: null, the task belongs to no category.
NoCategory == [name |-> "", color |-> ""]

\* A row of the tasks table with the fields the pages read.  A title or a
\* description is the sequence of its characters; an absent description is
\* NoDescription, an absent category NoCategory, an absent completed_at or
\* due_date Null.
Task(id, title, description, completed, completed_at, due_date, priority, created_at, category) ==
  [id |-> id, title |-> title, description |-> description,
   completed |-> completed, completed_at |-> completed_at,
   due_date |-> due_date, priority |-> priority, created_at |-> created_at,
   category |-> category]

\* The rows behind TaskIds: two tasks that have never been completed.
TwoTasks ==
  << Task("t1", <<"a">>, NoDescription, FALSE, Null, Null, "medium", 0, NoCategory),
     Task("t2", <<"b">>, NoDescription, FALSE, Null, Null, "medium", 1, NoCategory) >>

\* useState<Stats>({totalTasks: 0, completedTasks: 0, todayTasks: 0, overdueTasks: 0})
NoStats == [totalTasks |-> 0, completedTasks |-> 0, todayTasks |-> 0, overdueTasks |-> 0]

\* useState<AnalyticsData>: empty series and zeroed weekly stats.
NoAnalytics ==
  [dailyCompletion |-> <<>>, categoryBreakdown |-> <<>>, timeSpent |-> <<>>,
   weeklyStats |-> [tasksCompleted |-> 0, timeTracked |-> 0,
                    averageTimePerTask |-> 0, completionRate |-> 0]]

\* fetchAnalytics() has not been called: its locals hold nothing.
NoCall ==
  [stage |-> "none", startDate |-> Null, endDate |-> Null, weekStart |-> Null,
   tasks |-> <<>>, timeEntries |-> <<>>, dailyData |-> <<>>, timeData |-> <<>>]

\* The Dashboard, Tasks and Analytics pages as they are when first rendered.
PageInit ==
  /\ analytics = NoAnalytics
  /\ analyticsCall = NoCall
  /\ pageTasks = <<>>
  /\ loading = TRUE
  /\ searchQuery = <<>>
  /\ statusFilter = "all"
  /\ priorityFilter = "all"
  /\ filteredTasks = <<>>
  /\ stats = NoStats

----------------------------------------------------------------------------
\* The Timer view as it is when first rendered, with an empty time_entries
\* table.
TimerInit ==
  /\ mounted = TRUE
  /\ tasks = {}
  /\ fetchingTasks = TRUE
  /\ selectedTaskId = ""
  /\ isRunning = FALSE
  /\ currentTime = 0
  /\ activeEntryId = Null
  /\ intervalRef = Null
  /\ intervals = {}
  /\ effectDep = FALSE
  /\ time_entries = <<>>
  /\ pending = EmptyBag
  /\ now = 0
  /\ toast = NoToast
  /\ ticks = 0

\* The Timer view is routed; the other pages hold no state and have no
\* request in flight.
Init ==
  /\ TimerInit
  /\ page = "Timer"
  /\ PageInit
  /\ tasks_table = TwoTasks
  /\ taskPending = EmptyBag

----------------------------------------------------------------------------
\* The view: mounting, unmounting, fetching the tasks, selecting one.

\* Timer() is rendered anew: every useState cell and the ref start from their
\* initial values, and the [user] effect calls fetchTasks().
Mount ==
  /\ ~mounted
  /\ mounted' = TRUE
  /\ fetchingTasks' = TRUE
  /\ toast' = NoToast
  /\ UNCHANGED <<tasks, selectedTaskId, timerVars, intervalVars, repoVars, now, ticks>>

\* The view is torn down: the effect's cleanup clears the interval, the state
\* cells are dropped, the requests in flight stay in flight.
Unmount ==
  /\ mounted
  /\ mounted' = FALSE
  /\ tasks' = {}
  /\ fetchingTasks' = FALSE
  /\ selectedTaskId' = ""
  /\ isRunning' = FALSE
  /\ currentTime' = 0
  /\ activeEntryId' = Null
  /\ intervals' = Cleared
  /\ intervalRef' = Null
  /\ effectDep' = FALSE
  /\ pending' = Orphaned(pending)
  /\ ticks' = 0
  /\ toast' = NoToast
  /\ UNCHANGED <<time_entries, now>>

\* fetchTasks after its await: setTasks(data) or the error toast.
fetchTasks(ok) ==
  /\ mounted /\ fetchingTasks
  /\ fetchingTasks' = FALSE
  /\ IF ok
     THEN tasks' = TaskIds /\ toast' = NoToast
     ELSE /\ UNCHANGED tasks
          /\ toast' = "Failed to fetch tasks."
  /\ UNCHANGED <<mounted, selectedTaskId, timerVars, intervalVars, repoVars, now, ticks>>

\* <Select onValueChange={setSelectedTaskId} disabled={isRunning}>
setSelectedTaskId(t) ==
  /\ SelectEnabled
  /\ t \in tasks /\ t # selectedTaskId
  /\ selectedTaskId' = t
  /\ toast' = NoToast
  /\ UNCHANGED <<mounted, tasks, fetchingTasks, timerVars, intervalVars, repoVars, now, ticks>>

----------------------------------------------------------------------------
\* startTimer.

\* StartConfirmed without setActiveEntryId(data.id).
StartConfirmed_NoEntryId(id) ==
  /\ UNCHANGED activeEntryId
  /\ isRunning' = TRUE
  /\ currentTime' = 0

\* What startTimer sets once the insert is confirmed.
StartConfirmed(id) ==
  /\ activeEntryId' = id
  /\ isRunning' = TRUE
  /\ currentTime' = 0

\* The catch block of startTimer: a toast and nothing else.
StartFailed == UNCHANGED timerVars

\* startTimer without its check of selectedTaskId.
startTimer_NoValidation ==
  /\ BagCardinality(pending) < MaxPending
  /\ Len(time_entries) + InsertsInFlight(Requests) < MaxEntries
  /\ pending' = pending (+) One(InsertRequest(selectedTaskId, now))
  /\ toast' = NoToast
  /\ UNCHANGED <<viewVars, timerVars, intervalVars, time_entries, now, ticks>>

\* startTimer up to its await.
startTimer ==
  IF selectedTaskId = ""
  THEN /\ toast' = "Select a task"
       /\ UNCHANGED <<viewVars, timerVars, intervalVars, repoVars, now, ticks>>
  ELSE /\ BagCardinality(pending) < MaxPending
       /\ Len(time_entries) + InsertsInFlight(Requests) < MaxEntries
       /\ pending' = pending (+) One(InsertRequest(selectedTaskId, now))
       /\ toast' = NoToast
       /\ UNCHANGED <<viewVars, timerVars, intervalVars, time_entries, now, ticks>>

\* startTimer after its await: the table has taken the row (data.id is the
\* new row's id) or the call has failed.
startTimerResolved(r, ok) ==
  /\ r \in Inserts
  /\ pending' = pending (-) One(r)
  /\ IF ok
     THEN /\ time_entries' = Append(time_entries, r.row)
          /\ IF r.live
             THEN StartConfirmed(Len(time_entries) + 1) /\ ticks' = 0
             ELSE UNCHANGED <<timerVars, ticks>>
          /\ toast' = "Timer started"
     ELSE /\ UNCHANGED <<time_entries, ticks>>
          /\ StartFailed
          /\ toast' = "Failed to start timer."
  /\ UNCHANGED <<viewVars, intervalVars, now>>

----------------------------------------------------------------------------
\* pauseTimer.

\* pauseTimer whose update leaves the interval scheduled.
pauseTimer_KeepsInterval ==
  /\ isRunning' = FALSE
  /\ UNCHANGED <<currentTime, activeEntryId>>
  /\ IF isRunning
     THEN effectDep' = FALSE /\ UNCHANGED <<intervals, intervalRef>>
     ELSE UNCHANGED intervalVars
  /\ toast' = NoToast
  /\ UNCHANGED <<viewVars, repoVars, now, ticks>>

\* pauseTimer as a pause that is persisted: it closes the entry referenced
\* with the time and the counter of the click.
pauseTimer_ClosesEntry ==
  /\ isRunning' = FALSE
  /\ UNCHANGED <<currentTime, activeEntryId>>
  /\ IF isRunning
     THEN intervals' = Cleared /\ effectDep' = FALSE /\ UNCHANGED intervalRef
     ELSE UNCHANGED intervalVars
  /\ time_entries' =
       [i \in DOMAIN time_entries |->
          IF i = activeEntryId
          THEN [time_entries[i] EXCEPT !.end_time = now, !.duration = currentTime]
          ELSE time_entries[i]]
  /\ toast' = NoToast
  /\ UNCHANGED <<viewVars, pending, now, ticks>>

\* setIsRunning(false) from a click.  React runs the passive effects of an
\* update made in a discrete event (a click) together with its commit, after
\* flushing an effect still pending: the interval is cleared in the same
\* step.  When isRunning is already false the setState changes nothing and
\* nothing renders.
pauseTimer ==
  /\ isRunning' = FALSE
  /\ UNCHANGED <<currentTime, activeEntryId>>
  /\ IF isRunning
     THEN intervals' = Cleared /\ effectDep' = FALSE /\ UNCHANGED intervalRef
     ELSE UNCHANGED intervalVars
  /\ toast' = NoToast
  /\ UNCHANGED <<viewVars, repoVars, now, ticks>>

----------------------------------------------------------------------------
\* stopTimer.

\* What stopTimer sets once the update is confirmed.
StopConfirmed ==
  /\ isRunning' = FALSE
  /\ currentTime' = 0
  /\ activeEntryId' = Null

\* StopFailed as a stop applied before the repository has confirmed it: the
\* view goes idle although the update failed.
StopFailed_Optimistic == StopConfirmed

\* The catch block of stopTimer: a toast and nothing else.
StopFailed == UNCHANGED timerVars

\* .update(patch).eq('id', id)
UpdateRow(table, id, patch) ==
  [i \in DOMAIN table |->
     IF i = id
     THEN [table[i] EXCEPT !.end_time = patch.end_time, !.duration = patch.duration]
     ELSE table[i]]

\* stopTimer up to its await.
stopTimer ==
  IF activeEntryId = Null
  THEN /\ toast' = NoToast
       /\ UNCHANGED <<viewVars, timerVars, intervalVars, repoVars, now, ticks>>
  ELSE /\ BagCardinality(pending) < MaxPending
       /\ pending' = pending (+) One(UpdateRequest(activeEntryId, now, currentTime))
       /\ toast' = NoToast
       /\ UNCHANGED <<viewVars, timerVars, intervalVars, time_entries, now, ticks>>

\* stopTimer after its await.  fetchTimeEntries() only reads the table, and
\* the list it sets is shown and read by no handler: it is left out.
stopTimerResolved(r, ok) ==
  /\ r \in Updates
  /\ pending' = pending (-) One(r)
  /\ IF ok
     THEN /\ time_entries' = UpdateRow(time_entries, r.id, r.patch)
          /\ IF r.live
             THEN StopConfirmed /\ ticks' = 0
             ELSE UNCHANGED <<timerVars, ticks>>
          /\ toast' = "Timer stopped"
     ELSE /\ UNCHANGED <<time_entries, ticks>>
          /\ StopFailed
          /\ toast' = "Failed to stop timer."
  /\ UNCHANGED <<viewVars, intervalVars, now>>

----------------------------------------------------------------------------
\* The interval callback and the effect.

\* setCurrentTime(prev => prev + 1), fired by a scheduled interval.  The
\* callback reads neither isRunning nor activeEntryId: it fires as long as
\* its interval has not been cleared.
Tick ==
  /\ mounted
  /\ intervals # {}
  /\ currentTime < MaxTime
  /\ currentTime' = currentTime + 1
  /\ ticks' = IF isRunning THEN ticks + 1 ELSE ticks
  /\ toast' = NoToast
  /\ UNCHANGED <<viewVars, isRunning, activeEntryId, intervalVars, repoVars, now>>

\* The [isRunning] effect after a commit that changed isRunning outside a
\* click (the continuation of an await): it is passive, so it runs in a task
\* of its own after the commit.  First the cleanup the last run returned,
\* then the body.
RunEffect ==
  /\ EffectPending
  /\ IF isRunning
     THEN /\ \E i \in 1..MaxIntervals : i \notin intervals \cup {intervalRef}
          /\ intervalRef' = FreshInterval
          /\ intervals' = Cleared \cup {FreshInterval}
     ELSE /\ intervals' = Cleared
          /\ UNCHANGED intervalRef
  /\ effectDep' = isRunning
  /\ toast' = NoToast
  /\ UNCHANGED <<viewVars, timerVars, repoVars, now, ticks>>

\* The wall clock advances.
TimePasses ==
  /\ now < MaxNow
  /\ now' = now + 1
  /\ toast' = NoToast
  /\ UNCHANGED <<viewVars, timerVars, intervalVars, repoVars, ticks>>

----------------------------------------------------------------------------
\* The program: the handlers run when their control is rendered and clicked.

ClickStart == StartShown /\ startTimer
ClickPause == PauseShown /\ pauseTimer
ClickStop == StopShown /\ stopTimer

\* The repository answers a call in flight, with data or with an error.
FetchTasksResponse == \E ok \in BOOLEAN : fetchTasks(ok)
InsertResponse == \E r \in Requests : \E ok \in BOOLEAN : startTimerResolved(r, ok)
UpdateResponse == \E r \in Requests : \E ok \in BOOLEAN : stopTimerResolved(r, ok)

\* The user picks a task in the Select.
SelectTask == \E t \in TaskIds : setSelectedTaskId(t)

Next ==
  \/ Mount /\ UNCHANGED nonTimerVars
  \/ Unmount /\ UNCHANGED nonTimerVars
  \/ FetchTasksResponse /\ UNCHANGED nonTimerVars
  \/ SelectTask /\ UNCHANGED nonTimerVars
  \/ ClickStart /\ UNCHANGED nonTimerVars
  \/ InsertResponse /\ UNCHANGED nonTimerVars
  \/ ClickPause /\ UNCHANGED nonTimerVars
  \/ ClickStop /\ UNCHANGED nonTimerVars
  \/ UpdateResponse /\ UNCHANGED nonTimerVars
  \/ Tick /\ UNCHANGED nonTimerVars
  \/ RunEffect /\ UNCHANGED nonTimerVars
  \/ TimePasses /\ UNCHANGED nonTimerVars

Spec == Init /\ [][Next]_vars

\* The handlers as the operations of the timer session, called in any state
\* of a mounted view whether or not their button is rendered.
CallStart == mounted /\ startTimer
CallPause == mounted /\ pauseTimer
CallStop == mounted /\ stopTimer

HandlerNext ==
  \/ Next
  \/ CallStart /\ UNCHANGED nonTimerVars
  \/ CallPause /\ UNCHANGED nonTimerVars
  \/ CallStop /\ UNCHANGED nonTimerVars

HandlerSpec == Init /\ [][HandlerNext]_vars

----------------------------------------------------------------------------
\* Text: the String methods filterTasks calls, on sequences of characters.

LowerChar(c) == IF c = "A" THEN "a" ELSE IF c = "B" THEN "b" ELSE c

\* String.prototype.toLowerCase
toLowerCase(s) == [i \in 1..Len(s) |-> LowerChar(s[i])]

\* String.prototype.includes: sub occurs in s as a substring.
includes(s, sub) ==
  \E i \in 0..(Len(s) - Len(sub)) : SubSeq(s, i + 1, i + Len(sub)) = sub

RECURSIVE trimStart(_)
trimStart(s) == IF s # <<>> /\ Head(s) = " " THEN trimStart(Tail(s)) ELSE s

RECURSIVE trimEnd(_)
trimEnd(s) ==
  IF s # <<>> /\ s[Len(s)] = " " THEN trimEnd(SubSeq(s, 1, Len(s) - 1)) ELSE s

\* String.prototype.trim
trim(s) == trimEnd(trimStart(s))

----------------------------------------------------------------------------
\* The Tasks page: filterTasks.

\* filterTasks whose search step runs whenever searchQuery is not empty.
filterTasks_NoTrim(list, query, status, priority) ==
  LET q == toLowerCase(query)
      matches(task) ==
        \/ includes(toLowerCase(task.title), q)
        \/ (task.description # NoDescription /\ includes(toLowerCase(task.description), q))
      hasStatus(task) == IF status = "completed" THEN task.completed ELSE ~task.completed
      hasPriority(task) == task.priority = priority
      searched == IF query # <<>> THEN SelectSeq(list, matches) ELSE list
      byStatus == IF status # "all" THEN SelectSeq(searched, hasStatus) ELSE searched
  IN  IF priority # "all" THEN SelectSeq(byStatus, hasPriority) ELSE byStatus

\* The value filterTasks hands to setFilteredTasks.  The search step runs
\* when searchQuery.trim() is truthy and matches against
\* searchQuery.toLowerCase(), the text as typed; description?.toLowerCase()
\* of an absent description is undefined, which is falsy.
filterTasks(list, query, status, priority) ==
  LET q == toLowerCase(query)
      matches(task) ==
        \/ includes(toLowerCase(task.title), q)
        \/ (task.description # NoDescription /\ includes(toLowerCase(task.description), q))
      hasStatus(task) == IF status = "completed" THEN task.completed ELSE ~task.completed
      hasPriority(task) == task.priority = priority
      searched == IF trim(query) # <<>> THEN SelectSeq(list, matches) ELSE list
      byStatus == IF status # "all" THEN SelectSeq(searched, hasStatus) ELSE searched
  IN  IF priority # "all" THEN SelectSeq(byStatus, hasPriority) ELSE byStatus

----------------------------------------------------------------------------
\* The Dashboard: the stats fetchTasks computes from the rows it has fetched.

\* new Date(now.getFullYear(), now.getMonth(), now.getDate()): the first
\* instant of the day of t.
StartOfDay(t) == (t \div TicksPerDay) * TicksPerDay

Stats(tasksData, t) ==
  LET today == StartOfDay(t)
      isCompleted(task) == task.completed
      dueToday(task) ==
        /\ task.due_date # Null
        /\ task.due_date >= today /\ task.due_date < today + TicksPerDay
      overdue(task) ==
        /\ task.due_date # Null /\ ~task.completed
        /\ task.due_date < today
  IN  [totalTasks |-> Len(tasksData),
       completedTasks |-> Len(SelectSeq(tasksData, isCompleted)),
       todayTasks |-> Len(SelectSeq(tasksData, dueToday)),
       overdueTasks |-> Len(SelectSeq(tasksData, overdue))]

----------------------------------------------------------------------------
\* The requests of the Dashboard and Tasks pages.

\* TogglePatch as a patch that stamps completed_at whatever the new value.
TogglePatch_AlwaysStamped(completed, t) ==
  [completed |-> ~completed, completed_at |-> t]

\* The patch toggleTaskComplete sends:
\* {completed: !completed, completed_at: !completed ? new Date() : null}
TogglePatch(completed, t) ==
  [completed |-> ~completed, completed_at |-> IF ~completed THEN t ELSE Null]

ToggleRequest(taskId, completed, t) ==
  [kind |-> "toggle", id |-> taskId, patch |-> TogglePatch(completed, t),
   live |-> TRUE]

\* .delete().eq('id', taskId), sent by deleteTask of the Tasks page.
DeleteRequest(taskId) ==
  [kind |-> "delete", id |-> taskId, patch |-> TogglePatch(TRUE, Null), live |-> TRUE]

\* The select of fetchTasks, issued by a page that is routed (live) or by the
\* continuation of a page that has been left.
FetchRequest(live) ==
  [kind |-> "fetch", id |-> "", patch |-> TogglePatch(TRUE, Null), live |-> live]

TaskRequests == BagToSet(taskPending)
Toggles == {r \in TaskRequests : r.kind = "toggle"}
Fetches == {r \in TaskRequests : r.kind = "fetch"}

\* .update(patch).eq('id', taskId) on the tasks table
UpdateTask(table, taskId, patch) ==
  [i \in DOMAIN table |->
     IF table[i].id = taskId
     THEN [table[i] EXCEPT !.completed = patch.completed,
                           !.completed_at = patch.completed_at]
     ELSE table[i]]

\* .order('created_at', { ascending: false }); rows created at the same
\* instant keep their table order.
RECURSIVE OrderByCreatedDesc(_)
OrderByCreatedDesc(table) ==
  IF table = <<>> THEN <<>>
  ELSE LET rest == OrderByCreatedDesc(Tail(table))
           row == Head(table)
           before == SelectSeq(rest, LAMBDA x : x.created_at > row.created_at)
           after == SelectSeq(rest, LAMBDA x : x.created_at <= row.created_at)
       IN  before \o <<row>> \o after

\* The rows with a completion button: Tasks renders filteredTasks, the
\* Dashboard tasks.slice(0, 5), and both a spinner while loading.
Listed ==
  IF loading THEN <<>>
  ELSE IF page = "Tasks" THEN filteredTasks
  ELSE IF page = "Dashboard"
       THEN SubSeq(pageTasks, 1, IF Len(pageTasks) < 5 THEN Len(pageTasks) ELSE 5)
       ELSE <<>>

----------------------------------------------------------------------------
\* The Dashboard and Tasks pages: routing, fetchTasks, toggleTaskComplete.

\* The router renders page p: the page left drops its state and its requests
\* stay in flight, the page entered starts from its initial state and its
\* [user] effect calls fetchTasks().
Navigate(p) ==
  /\ p # page
  /\ BagCardinality(taskPending) < MaxTaskPending
  /\ page' = p
  /\ pageTasks' = <<>>
  /\ loading' = TRUE
  /\ searchQuery' = <<>>
  /\ statusFilter' = "all"
  /\ priorityFilter' = "all"
  /\ filteredTasks' = <<>>
  /\ stats' = NoStats
  /\ UNCHANGED analyticsVars
  /\ taskPending' = Orphaned(taskPending) (+) One(FetchRequest(TRUE))
  /\ toast' = NoToast
  /\ UNCHANGED <<tasks_table, now, timerSide>>

\* fetchTasks of the Dashboard or of Tasks after its await.  setTasks(data)
\* is followed on Tasks by the [tasks, ...] effect, which runs filterTasks(),
\* and on the Dashboard by setStats; the finally block ends the loading
\* state.  The setters of a page that has been left reach no component.
fetchPageTasks(r, ok) ==
  /\ r \in Fetches
  /\ taskPending' = taskPending (-) One(r)
  /\ loading' = IF r.live THEN FALSE ELSE loading
  /\ IF ok
     THEN LET data == OrderByCreatedDesc(tasks_table)
          IN  /\ IF r.live
                 THEN /\ pageTasks' = data
                      /\ IF page = "Tasks"
                         THEN /\ filteredTasks' =
                                   filterTasks(data, searchQuery, statusFilter, priorityFilter)
                              /\ UNCHANGED stats
                         ELSE /\ stats' = Stats(data, now)
                              /\ UNCHANGED filteredTasks
                 ELSE UNCHANGED <<pageTasks, filteredTasks, stats>>
              /\ toast' = NoToast
     ELSE /\ UNCHANGED <<pageTasks, filteredTasks, stats>>
          /\ toast' = "Failed to fetch tasks. Please try again."
  /\ UNCHANGED <<page, searchQuery, statusFilter, priorityFilter, tasks_table,
                 now, notOnPage>>

\* toggleTaskComplete up to its await: the update is sent with the completed
\* value the page has rendered.
toggleTaskComplete(taskId, completed) ==
  /\ BagCardinality(taskPending) < MaxTaskPending
  /\ taskPending' = taskPending (+) One(ToggleRequest(taskId, completed, now))
  /\ toast' = NoToast
  /\ UNCHANGED <<pageVars, tasks_table, now, notOnPage>>

\* toggleTaskComplete after its await: the table has taken the patch and
\* fetchTasks() is called, or the call has failed.
toggleTaskCompleteResolved(r, ok) ==
  /\ r \in Toggles
  /\ IF ok
     THEN /\ tasks_table' = UpdateTask(tasks_table, r.id, r.patch)
          /\ taskPending' = (taskPending (-) One(r)) (+) One(FetchRequest(r.live))
          /\ toast' = IF r.patch.completed THEN "Task completed!" ELSE "Task reopened"
     ELSE /\ UNCHANGED tasks_table
          /\ taskPending' = taskPending (-) One(r)
          /\ toast' = "Failed to update task. Please try again."
  /\ UNCHANGED <<pageVars, now, notOnPage>>

\* .delete().eq('id', taskId) on the tasks table
DeleteTask(table, taskId) == SelectSeq(table, LAMBDA row : row.id # taskId)

\* deleteTask up to its await: nothing happens unless the user confirms.
deleteTask(taskId, confirmed) ==
  /\ IF confirmed
     THEN /\ BagCardinality(taskPending) < MaxTaskPending
          /\ taskPending' = taskPending (+) One(DeleteRequest(taskId))
     ELSE UNCHANGED taskPending
  /\ toast' = NoToast
  /\ UNCHANGED <<pageVars, tasks_table, now, notOnPage>>

\* deleteTask after its await: the row is gone and fetchTasks() is called, or
\* the call has failed.
deleteTaskResolved(r, ok) ==
  /\ r \in TaskRequests /\ r.kind = "delete"
  /\ IF ok
     THEN /\ tasks_table' = DeleteTask(tasks_table, r.id)
          /\ taskPending' = (taskPending (-) One(r)) (+) One(FetchRequest(r.live))
          /\ toast' = "Task deleted"
     ELSE /\ UNCHANGED tasks_table
          /\ taskPending' = taskPending (-) One(r)
          /\ toast' = "Failed to delete task. Please try again."
  /\ UNCHANGED <<pageVars, now, notOnPage>>

\* setSearchQuery(e.target.value), then the [tasks, searchQuery, ...] effect.
setSearchQuery(value) ==
  /\ page = "Tasks" /\ ~loading
  /\ value # searchQuery
  /\ searchQuery' = value
  /\ filteredTasks' = filterTasks(pageTasks, value, statusFilter, priorityFilter)
  /\ toast' = NoToast
  /\ UNCHANGED <<page, pageTasks, loading, statusFilter, priorityFilter, stats,
                 taskRepoVars, now, notOnPage>>

\* setStatusFilter(value), then the effect.
setStatusFilter(value) ==
  /\ page = "Tasks" /\ ~loading
  /\ value # statusFilter
  /\ statusFilter' = value
  /\ filteredTasks' = filterTasks(pageTasks, searchQuery, value, priorityFilter)
  /\ toast' = NoToast
  /\ UNCHANGED <<page, pageTasks, loading, searchQuery, priorityFilter, stats,
                 taskRepoVars, now, notOnPage>>

\* setPriorityFilter(value), then the effect.
setPriorityFilter(value) ==
  /\ page = "Tasks" /\ ~loading
  /\ value # priorityFilter
  /\ priorityFilter' = value
  /\ filteredTasks' = filterTasks(pageTasks, searchQuery, statusFilter, value)
  /\ toast' = NoToast
  /\ UNCHANGED <<page, pageTasks, loading, searchQuery, statusFilter, stats,
                 taskRepoVars, now, notOnPage>>

\* The wall clock advances while the Dashboard or Tasks is routed.
ClockAdvances ==
  /\ now < MaxClock
  /\ now' = now + 1
  /\ toast' = NoToast
  /\ UNCHANGED <<pageVars, taskRepoVars, notOnPage>>

\* The user follows a link of the navigation bar.
Route == \E p \in {"Dashboard", "Tasks"} : Navigate(p)

\* The user clicks the completion button of a listed task.
ClickToggle ==
  \E i \in DOMAIN Listed : toggleTaskComplete(Listed[i].id, Listed[i].completed)

\* The repository answers a call of these pages, with data or with an error.
PageFetchResponse == \E r \in TaskRequests : \E ok \in BOOLEAN : fetchPageTasks(r, ok)
ToggleResponse ==
  \E r \in TaskRequests : \E ok \in BOOLEAN : toggleTaskCompleteResolved(r, ok)

\* The Timer view is not routed.
TimerUnmounted ==
  /\ mounted = FALSE
  /\ tasks = {}
  /\ fetchingTasks = FALSE
  /\ selectedTaskId = ""
  /\ isRunning = FALSE
  /\ currentTime = 0
  /\ activeEntryId = Null
  /\ intervalRef = Null
  /\ intervals = {}
  /\ effectDep = FALSE
  /\ pending = EmptyBag
  /\ ticks = 0

\* The Timer view is not routed and has written nothing.
TimerAbsent == TimerUnmounted /\ time_entries = <<>>

\* The Dashboard is routed at the start of the second day, with the two
\* tasks in the table, and its [user] effect has called fetchTasks().
TasksInit ==
  /\ TimerAbsent
  /\ page = "Dashboard"
  /\ PageInit
  /\ tasks_table = TwoTasks
  /\ taskPending = One(FetchRequest(TRUE))
  /\ now = TicksPerDay
  /\ toast = NoToast

TasksNext ==
  \/ Route
  \/ PageFetchResponse
  \/ ClickToggle
  \/ ToggleResponse
  \/ ClockAdvances

TasksSpec == TasksInit /\ [][TasksNext]_vars

----------------------------------------------------------------------------
\* JavaScript numbers.  The counts, durations and sums of the Analytics page
\* are integers, which a double holds exactly; a quotient or a product is a
\* double: a record [m, e] whose value is the binary numeral m (a sequence of
\* at most MantissaBits bits, the first of which is 1; the empty sequence for
\* 0) times 2^e.  Each operation yields the double nearest to the exact
\* result, the one with an even mantissa when two are equally near.

\* The bits of the significand of a double.
MantissaBits == 53

\* The binary numeral of the natural number n, without leading zeros.
RECURSIVE Bits(_)
Bits(n) == IF n = 0 THEN <<>> ELSE Append(Bits(n \div 2), n % 2)

\* The natural number a binary numeral denotes.
RECURSIVE ToInt(_)
ToInt(m) ==
  IF m = <<>> THEN 0 ELSE 2 * ToInt(SubSeq(m, 1, Len(m) - 1)) + m[Len(m)]

\* The integer n as a double.
Double(n) == [m |-> Bits(n), e |-> 0]

\* A numeral extended by one bit; a numeral has no leading zero.
AppendBit(m, bit) == IF m = <<>> /\ bit = 0 THEN <<>> ELSE Append(m, bit)

\* The numeral after m.
RECURSIVE Increment(_)
Increment(m) ==
  IF m = <<>> THEN <<1>>
  ELSE IF m[Len(m)] = 0 THEN [m EXCEPT ![Len(m)] = 1]
       ELSE Append(Increment(SubSeq(m, 1, Len(m) - 1)), 0)

\* The double nearest to the exact value m * 2^e + (a rest below 2^e), where
\* sticky tells whether the rest is above 0: m is cut to MantissaBits bits
\* and rounded to nearest, ties to even.
RoundToDouble(m, e, sticky) ==
  IF Len(m) <= MantissaBits THEN [m |-> m, e |-> e]
  ELSE LET kept == SubSeq(m, 1, MantissaBits)
           guard == m[MantissaBits + 1]
           below == sticky \/ \E i \in (MantissaBits + 2)..Len(m) : m[i] = 1
           up == guard = 1 /\ (below \/ kept[MantissaBits] = 1)
           r == IF up THEN Increment(kept) ELSE kept
           e1 == e + (Len(m) - MantissaBits)
       IN  IF Len(r) > MantissaBits
           THEN [m |-> SubSeq(r, 1, MantissaBits), e |-> e1 + 1]
           ELSE [m |-> r, e |-> e1]

\* Long division of a numeral by d: the bits of the numeral are brought
\* down one by one, then zeros, until the rest is 0 or the quotient has one
\* bit more than a double holds.
RECURSIVE DivideBits(_, _, _, _, _)
DivideBits(bits, d, rest, q, e) ==
  IF bits # <<>>
  THEN LET r == 2 * rest + Head(bits)
       IN  DivideBits(Tail(bits), d, IF r >= d THEN r - d ELSE r,
                      AppendBit(q, IF r >= d THEN 1 ELSE 0), e)
  ELSE IF rest = 0 \/ Len(q) > MantissaBits
       THEN RoundToDouble(q, e, rest # 0)
       ELSE LET r == 2 * rest
            IN  DivideBits(<<>>, d, IF r >= d THEN r - d ELSE r,
                           AppendBit(q, IF r >= d THEN 1 ELSE 0), e - 1)

\* x / d for a double x and an integer d above 0.
Divide(x, d) == DivideBits(x.m, d, 0, <<>>, x.e)

\* The product of a numeral by c, from its last bit to its first.
RECURSIVE TimesBits(_, _, _, _)
TimesBits(bits, c, carry, acc) ==
  IF bits = <<>> THEN Bits(carry) \o acc
  ELSE LET v == bits[Len(bits)] * c + carry
       IN  TimesBits(SubSeq(bits, 1, Len(bits) - 1), c, v \div 2, <<v % 2>> \o acc)

\* x * c for a double x and an integer c above 0.
Times(x, c) ==
  IF x.m = <<>> THEN x ELSE RoundToDouble(TimesBits(x.m, c, 0, <<>>), x.e, FALSE)

\* Math.round of a double that is not negative: the nearest integer, the
\* larger one when two are equally near.
MathRound(x) ==
  IF x.e >= 0 THEN ToInt(x.m \o [i \in 1..x.e |-> 0])
  ELSE LET whole == Len(x.m) + x.e
       IN  IF whole < 0 THEN 0
           ELSE ToInt(SubSeq(x.m, 1, whole)) + x.m[whole + 1]

----------------------------------------------------------------------------
\* The Tasks page over the task lists and the filter values of the bounds.

\* The ids of the rows by their place in the table.
RowIds == <<"t1", "t2", "t3", "t4">>

\* Titles, descriptions and priorities of the rows, and the texts typed into
\* the search box.
Titles == { <<"A", "b">>, <<"b", " ", "a">> }
Descriptions == { NoDescription, <<"B", "a">> }
Priorities == {"high", "low"}
Queries ==
  { <<>>, <<" ">>, <<"A">>, <<"a", "b">>, <<" ", "a">>, <<"b", " ">> }
StatusValues == {"all", "pending", "completed"}
PriorityValues == {"all", "high", "medium", "low"}

\* A table of n rows: row i was created after row i + 1, and a completed row
\* carries its completed_at.
FilterTables ==
  UNION { { [i \in 1..n |->
               Task(RowIds[i], t[i], d[i], c[i], IF c[i] THEN n ELSE Null,
                    Null, p[i], n - i, NoCategory)] :
            t \in [1..n -> Titles], d \in [1..n -> Descriptions],
            c \in [1..n -> BOOLEAN], p \in [1..n -> Priorities] } :
          n \in 0..MaxTasks }

\* Tasks is routed over one of the tables, and its [user] effect has called
\* fetchTasks().
FilterInit ==
  /\ TimerAbsent
  /\ page = "Tasks"
  /\ PageInit
  /\ tasks_table \in FilterTables
  /\ taskPending = One(FetchRequest(TRUE))
  /\ now = TicksPerDay
  /\ toast = NoToast

\* The user types in the search box or picks a value in a Select.
TypeSearch == \E q \in Queries : setSearchQuery(q)
PickStatus == \E v \in StatusValues : setStatusFilter(v)
PickPriority == \E v \in PriorityValues : setPriorityFilter(v)

FilterNext ==
  \/ PageFetchResponse
  \/ TypeSearch
  \/ PickStatus
  \/ PickPriority

FilterSpec == FilterInit /\ [][FilterNext]_vars

----------------------------------------------------------------------------
\* The Analytics page: the snapshot fetchAnalytics computes.

\* startDate.getDate() - 30, weekStart.getDate() - 7 and slice(-7)
WindowDays == 30
WeekDays == 7
DisplayDays == 7

\* toISOString().split('T')[0] of a Date and split('T')[0] of a timestamp of
\* the repository: the calendar day of the instant.
DateOf(t) == t \div TicksPerDay

\* new Date(date).toLocaleDateString('en-US', { weekday: 'short' }): the
\* day of the week of a calendar day.
Weekday(date) == date % 7

\* d.setDate(d.getDate() - n) and d.setDate(d.getDate() + n)
MinusDays(t, n) == t - n * TicksPerDay
PlusDays(t, n) == t + n * TicksPerDay

\* slice(-n)
Last(list, n) ==
  SubSeq(list, IF Len(list) > n THEN Len(list) - n + 1 ELSE 1, Len(list))

\* for (let d = new Date(startDate); d <= endDate; d.setDate(d.getDate() + 1))
\*   dailyData.set(dateStr, { date: dateStr, completed: 0, total: 0 })
EmptyDailyData(startDate, endDate) ==
  LET n == IF startDate > endDate THEN 0
           ELSE (endDate - startDate) \div TicksPerDay + 1
  IN  [k \in 1..n |->
         [date |-> DateOf(PlusDays(startDate, k - 1)), completed |-> 0, total |-> 0]]

\* tasks.forEach over dailyData: a task whose created date has a bucket adds
\* 1 to its total, and 1 to its completed when the task is completed.
RECURSIVE AddTasks(_, _)
AddTasks(dailyData, list) ==
  IF list = <<>> THEN dailyData
  ELSE LET task == Head(list)
           createdDate == DateOf(task.created_at)
           has == \E k \in DOMAIN dailyData : dailyData[k].date = createdDate
           at == CHOOSE k \in DOMAIN dailyData : dailyData[k].date = createdDate
       IN  AddTasks(
             IF has
             THEN [dailyData EXCEPT
                     ![at].total = @ + 1,
                     ![at].completed = IF task.completed THEN @ + 1 ELSE @]
             ELSE dailyData,
             Tail(list))

\* AddCategories as a loop without the test of line 100: a task without a
\* category is counted under the name of no category.
RECURSIVE AddCategories_WithUncategorised(_, _)
AddCategories_WithUncategorised(categoryData, list) ==
  IF list = <<>> THEN categoryData
  ELSE LET task == Head(list)
           has == \E k \in DOMAIN categoryData :
                    categoryData[k].name = task.category.name
           at == CHOOSE k \in DOMAIN categoryData :
                   categoryData[k].name = task.category.name
       IN  AddCategories_WithUncategorised(
             IF has
             THEN [categoryData EXCEPT ![at].value = @ + 1]
             ELSE Append(categoryData,
                         [name |-> task.category.name, value |-> 1,
                          color |-> task.category.color]),
             Tail(list))

\* tasks.forEach over categoryData, a Map in insertion order: a task with a
\* category adds 1 to the entry of its category name, or starts that entry
\* with value 1 and the color of its category.
RECURSIVE AddCategories(_, _)
AddCategories(categoryData, list) ==
  IF list = <<>> THEN categoryData
  ELSE LET task == Head(list)
           has == \E k \in DOMAIN categoryData :
                    categoryData[k].name = task.category.name
           at == CHOOSE k \in DOMAIN categoryData :
                   categoryData[k].name = task.category.name
       IN  AddCategories(
             IF task.category = NoCategory THEN categoryData
             ELSE IF has
                  THEN [categoryData EXCEPT ![at].value = @ + 1]
                  ELSE Append(categoryData,
                              [name |-> task.category.name, value |-> 1,
                               color |-> task.category.color]),
             Tail(list))

\* Math.round((entry.duration || 0) / 60)
Minutes(entry) ==
  MathRound(Divide(Double(IF entry.duration = Null THEN 0 ELSE entry.duration), 60))

\* timeEntries.forEach over timeData, a Map in insertion order: the minutes
\* of an entry are added to the value of its start date, or start it.
RECURSIVE AddEntries(_, _)
AddEntries(timeData, list) ==
  IF list = <<>> THEN timeData
  ELSE LET entry == Head(list)
           date == DateOf(entry.start_time)
           has == \E k \in DOMAIN timeData : timeData[k].date = date
           at == CHOOSE k \in DOMAIN timeData : timeData[k].date = date
       IN  AddEntries(
             IF has THEN [timeData EXCEPT ![at].minutes = @ + Minutes(entry)]
             ELSE Append(timeData, [date |-> date, minutes |-> Minutes(entry)]),
             Tail(list))

\* The series shown: the last DisplayDays entries, labelled by weekday.
Labelled(series) ==
  LET shown == Last(series, DisplayDays)
  IN  [k \in DOMAIN shown |-> [shown[k] EXCEPT !.date = Weekday(@)]]

\* reduce((total, entry) => total + (entry.duration || 0), 0)
RECURSIVE SumOfDurations(_)
SumOfDurations(list) ==
  IF list = <<>> THEN 0
  ELSE (IF Head(list).duration = Null THEN 0 ELSE Head(list).duration)
       + SumOfDurations(Tail(list))

\* WeeklyStats whose average is taken from the minutes already rounded.
WeeklyStats_FromRoundedMinutes(taskList, timeEntries, weekStart) ==
  LET inWeek(x) == x.created_at >= weekStart
      startedInWeek(x) == x.start_time >= weekStart
      isCompleted(x) == x.completed
      weekTasks == SelectSeq(taskList, inWeek)
      weekTimeEntries == SelectSeq(timeEntries, startedInWeek)
      tasksCompleted == Len(SelectSeq(weekTasks, isCompleted))
      timeTracked == SumOfDurations(weekTimeEntries)
      minutes == MathRound(Divide(Double(timeTracked), 60))
      averageTimePerTask ==
        IF tasksCompleted > 0
        THEN Divide(Double(minutes), tasksCompleted)
        ELSE Double(0)
      completionRate ==
        IF Len(weekTasks) > 0
        THEN Times(Divide(Double(tasksCompleted), Len(weekTasks)), 100)
        ELSE Double(0)
  IN  [tasksCompleted |-> tasksCompleted,
       timeTracked |-> minutes,
       averageTimePerTask |-> MathRound(averageTimePerTask),
       completionRate |-> MathRound(completionRate)]

\* The weekly stats: the tasks created and the entries started at or after
\* weekStart.
WeeklyStats(taskList, timeEntries, weekStart) ==
  LET inWeek(x) == x.created_at >= weekStart
      startedInWeek(x) == x.start_time >= weekStart
      isCompleted(x) == x.completed
      weekTasks == SelectSeq(taskList, inWeek)
      weekTimeEntries == SelectSeq(timeEntries, startedInWeek)
      tasksCompleted == Len(SelectSeq(weekTasks, isCompleted))
      timeTracked == SumOfDurations(weekTimeEntries)
      averageTimePerTask ==
        IF tasksCompleted > 0
        THEN Divide(Divide(Double(timeTracked), tasksCompleted), 60)
        ELSE Double(0)
      completionRate ==
        IF Len(weekTasks) > 0
        THEN Times(Divide(Double(tasksCompleted), Len(weekTasks)), 100)
        ELSE Double(0)
  IN  [tasksCompleted |-> tasksCompleted,
       timeTracked |-> MathRound(Divide(Double(timeTracked), 60)),
       averageTimePerTask |-> MathRound(averageTimePerTask),
       completionRate |-> MathRound(completionRate)]

----------------------------------------------------------------------------
\* The Analytics page: fetchAnalytics and the tables it is run over.

\* The instant at which the Analytics page is routed: the first instant of
\* the day that follows WindowDays whole days.
Request == (WindowDays + 1) * TicksPerDay

\* The creation instants of the tasks: the request instant, the two instants
\* of the day WeekDays before, the instant WindowDays before and the one
\* before that.
TaskInstants ==
  << Request, MinusDays(Request, WeekDays) + 1, MinusDays(Request, WeekDays),
     MinusDays(Request, WindowDays), MinusDays(Request, WindowDays) - 1 >>

\* The categories of the tasks.
Categories ==
  << NoCategory, [name |-> "Work", color |-> "#8884d8"],
     [name |-> "Home", color |-> "#82ca9d"] >>

\* The tasks the tables are made of: every creation instant, pending or
\* completed, in every category.
TaskTemplates ==
  [k \in 1..(Len(TaskInstants) * 2 * Len(Categories)) |->
     LET created == TaskInstants[((k - 1) % Len(TaskInstants)) + 1]
         completed == ((k - 1) \div Len(TaskInstants)) % 2 = 1
         category == Categories[((k - 1) \div (2 * Len(TaskInstants))) + 1]
     IN  Task("", <<"a">>, NoDescription, completed,
              IF completed THEN Request ELSE Null, Null, "medium", created,
              category)]

\* The tasks of the request day without a category, pending and completed.
TodayTemplates == << TaskTemplates[1], TaskTemplates[Len(TaskInstants) + 1] >>

\* The start instants and the durations of the time entries: the request
\* instant, the instant WeekDays before and the second instant of the window;
\* open, or closed after 30, 600, 900 or 1500 seconds.
EntryInstants ==
  << Request, MinusDays(Request, WeekDays), MinusDays(Request, WindowDays) + 1 >>
Durations == << Null, 30, 600, 900, 1500 >>

EntryTemplates ==
  [k \in 1..(Len(EntryInstants) * Len(Durations)) |->
     LET start == EntryInstants[((k - 1) % Len(EntryInstants)) + 1]
         duration == Durations[((k - 1) \div Len(EntryInstants)) + 1]
     IN  [task_id |-> "t1", start_time |-> start,
          end_time |-> IF duration = Null THEN Null ELSE start,
          duration |-> duration]]

\* The tables of up to max rows made of templates, one table for each
\* multiset of templates.
TablesOver(templates, max) ==
  UNION { { [i \in 1..n |-> templates[f[i]]] :
            f \in { g \in [1..n -> DOMAIN templates] :
                      \A i \in 1..n : \A j \in 1..n : i < j => g[i] <= g[j] } } :
          n \in 0..max }

\* The id of the row at place i of the tasks table.
RowId(i) == "t" \o ToString(i)
WithIds(table) == [i \in DOMAIN table |-> [table[i] EXCEPT !.id = RowId(i)]]

\* The loads of a full week: <<n, k>> stands for n tasks of which k are
\* completed.
WeekLoads == { <<8, 1>>, <<8, 8>>, <<40, 23>> }

\* The tables of a full week: n tasks created at the request instant, the
\* first k of them completed.
WeekTables ==
  { [i \in 1..load[1] |->
       Task(RowId(i), <<"a">>, NoDescription, i <= load[2],
            IF i <= load[2] THEN Request ELSE Null, Null, "medium", Request,
            NoCategory)] : load \in WeekLoads }

\* A select without an order clause returns its rows in any order: the
\* rotations of the table order and of its reverse, which are all the orders
\* of up to three rows.
Orders(rows) ==
  LET n == Len(rows)
      rotated(k) == [i \in 1..n |-> rows[((i + k - 1) % n) + 1]]
      reversed(k) == [i \in 1..n |-> rows[n - ((i + k - 1) % n)]]
  IN  IF n = 0 THEN {rows}
      ELSE {rotated(k) : k \in 0..(n - 1)} \cup {reversed(k) : k \in 0..(n - 1)}

\* .gte('created_at', startDate.toISOString())
TasksSince(startDate) ==
  SelectSeq(tasks_table, LAMBDA task : task.created_at >= startDate)

\* .gte('start_time', startDate.toISOString()).not('duration', 'is', null)
EntriesSince(startDate) ==
  SelectSeq(time_entries,
            LAMBDA entry : entry.start_time >= startDate /\ entry.duration # Null)

\* The value fetchAnalytics hands to setAnalytics, from the rows the two
\* selects returned and the three readings of the clock.
Snapshot(taskList, timeEntries, startDate, endDate, weekStart) ==
  [dailyCompletion |-> Labelled(AddTasks(EmptyDailyData(startDate, endDate), taskList)),
   categoryBreakdown |-> AddCategories(<<>>, taskList),
   timeSpent |-> Labelled(AddEntries(<<>>, timeEntries)),
   weeklyStats |-> WeeklyStats(taskList, timeEntries, weekStart)]

\* fetchAnalytics up to its first await: endDate and startDate are two
\* readings of the clock, which may advance between them.
fetchAnalytics ==
  /\ page = "Analytics" /\ loading /\ analyticsCall.stage = "none"
  /\ \E dt \in 0..1 :
       /\ now + dt <= Request + MaxDrift
       /\ now' = now + dt
       /\ analyticsCall' =
            [analyticsCall EXCEPT !.stage = "tasks", !.endDate = now,
                                  !.startDate = MinusDays(now + dt, WindowDays)]
  /\ toast' = NoToast
  /\ UNCHANGED <<page, pageTasks, loading, filterVars, stats, analytics,
                 taskRepoVars, timerSide>>

\* The catch and finally blocks of fetchAnalytics.
fetchAnalyticsFailed ==
  /\ analyticsCall' = [analyticsCall EXCEPT !.stage = "failed"]
  /\ loading' = FALSE
  /\ toast' = "Failed to fetch analytics data."
  /\ UNCHANGED <<page, pageTasks, filterVars, stats, analytics, taskRepoVars,
                 now, timerSide>>

\* fetchAnalytics after the select of the tasks.
fetchAnalyticsTasks(ok, data) ==
  /\ analyticsCall.stage = "tasks"
  /\ IF ok
     THEN /\ analyticsCall' = [analyticsCall EXCEPT !.stage = "entries", !.tasks = data]
          /\ toast' = NoToast
          /\ UNCHANGED <<page, pageTasks, loading, filterVars, stats, analytics,
                         taskRepoVars, now, timerSide>>
     ELSE fetchAnalyticsFailed

\* fetchAnalytics after the select of the time entries: the snapshot is
\* computed and handed to setAnalytics; weekStart is a third reading of the
\* clock.
fetchAnalyticsEntries(ok, data) ==
  /\ analyticsCall.stage = "entries"
  /\ IF ok
     THEN LET startDate == analyticsCall.startDate
              endDate == analyticsCall.endDate
              taskList == analyticsCall.tasks
              dailyData == AddTasks(EmptyDailyData(startDate, endDate), taskList)
              timeData == AddEntries(<<>>, data)
              weekStart == MinusDays(now, WeekDays)
          IN  /\ analytics' = Snapshot(taskList, data, startDate, endDate, weekStart)
              /\ analyticsCall' =
                   [analyticsCall EXCEPT !.stage = "done", !.timeEntries = data,
                                         !.dailyData = dailyData,
                                         !.timeData = timeData,
                                         !.weekStart = weekStart]
              /\ loading' = FALSE
              /\ toast' = NoToast
              /\ UNCHANGED <<page, pageTasks, filterVars, stats, taskRepoVars,
                             now, timerSide>>
     ELSE fetchAnalyticsFailed

\* The wall clock advances while the Analytics page is routed.
AnalyticsClock ==
  /\ now < Request + MaxDrift
  /\ now' = now + 1
  /\ toast' = NoToast
  /\ UNCHANGED <<pageVars, taskRepoVars, analyticsVars, timerSide>>

\* The [user] effect of the Analytics page.
CallFetchAnalytics == fetchAnalytics

\* The repository answers the selects of fetchAnalytics.
AnalyticsTasksResponse ==
  \E ok \in BOOLEAN :
    \E data \in Orders(TasksSince(analyticsCall.startDate)) :
      fetchAnalyticsTasks(ok, data)
AnalyticsEntriesResponse ==
  \E ok \in BOOLEAN :
    \E data \in Orders(EntriesSince(analyticsCall.startDate)) :
      fetchAnalyticsEntries(ok, data)

\* The Analytics page is routed at the request instant over a table of
\* tasks of every kind and no time entry, over tasks of the request day and
\* a table of time entries of every kind, or over the tasks of a full week.
AnalyticsInit ==
  /\ TimerUnmounted
  /\ page = "Analytics"
  /\ PageInit
  /\ taskPending = EmptyBag
  /\ now = Request
  /\ toast = NoToast
  /\ \/ /\ tasks_table \in {WithIds(t) : t \in TablesOver(TaskTemplates, MaxTasks)}
        /\ time_entries = <<>>
     \/ /\ tasks_table \in {WithIds(t) : t \in TablesOver(TodayTemplates, MaxTasks)}
        /\ time_entries \in TablesOver(EntryTemplates, MaxEntries)
     \/ /\ tasks_table \in WeekTables
        /\ time_entries = <<>>

AnalyticsNext ==
  \/ CallFetchAnalytics
  \/ AnalyticsTasksResponse
  \/ AnalyticsEntriesResponse
  \/ AnalyticsClock

AnalyticsSpec == AnalyticsInit /\ [][AnalyticsNext]_vars

----------------------------------------------------------------------------
\* The Dashboard over the task lists of a user: fetchTasks and its stats.

\* The rows of a task list: completed or not, without a due date or due
\* the day before, at the start of the day or later that day, created at one
\* of the two instants of the day.
StatsTemplates ==
  LET dues == << Null, TicksPerDay - 1, TicksPerDay, TicksPerDay + 1 >>
      n == 4 * Len(dues)
  IN  [k \in 1..n |->
         LET completed == (k % 2) = 0
             created == TicksPerDay + (((k - 1) \div 2) % 2)
         IN  Task("", <<"a">>, NoDescription, completed,
                  IF completed THEN created ELSE Null,
                  dues[((k - 1) \div 4) + 1], "medium", created, NoCategory)]

StatsTables == {WithIds(t) : t \in TablesOver(StatsTemplates, MaxRows)}

\* The Dashboard is routed at an instant of the second day over a table of
\* tasks created by then, and its [user] effect has called fetchTasks().
DashboardInit ==
  /\ TimerAbsent
  /\ page = "Dashboard"
  /\ PageInit
  /\ now \in TicksPerDay..MaxClock
  /\ tasks_table \in StatsTables
  /\ \A i \in DOMAIN tasks_table : tasks_table[i].created_at <= now
  /\ taskPending = One(FetchRequest(TRUE))
  /\ toast = NoToast

DashboardNext ==
  \/ PageFetchResponse
  \/ ClockAdvances

DashboardSpec == DashboardInit /\ [][DashboardNext]_vars

----------------------------------------------------------------------------
\* The pages together: the Timer view, the Dashboard and Tasks over the two
\* tasks, with the filter controls and the deletion of Tasks, and Analytics.

\* The user clicks the delete button of a listed task of the Tasks page and
\* confirms or cancels; the repository answers.
ClickDelete ==
  /\ page = "Tasks"
  /\ \E i \in DOMAIN Listed : \E confirmed \in BOOLEAN : deleteTask(Listed[i].id, confirmed)
DeleteResponse == \E r \in TaskRequests : \E ok \in BOOLEAN : deleteTaskResolved(r, ok)

\* The Tasks page is routed over the two tasks, and its [user] effect has
\* called fetchTasks().
TasksPageInit ==
  /\ TimerAbsent
  /\ page = "Tasks"
  /\ PageInit
  /\ tasks_table = TwoTasks
  /\ taskPending = One(FetchRequest(TRUE))
  /\ now = TicksPerDay
  /\ toast = NoToast

\* One of the pages is routed.
AppInit == Init \/ TasksInit \/ TasksPageInit \/ AnalyticsInit

AppNext ==
  \/ page = "Timer" /\ Next
  \/ page \in {"Dashboard", "Tasks"} /\ PageFetchResponse
  \/ page \in {"Dashboard", "Tasks"} /\ ClickToggle
  \/ page \in {"Dashboard", "Tasks"} /\ ToggleResponse
  \/ page = "Tasks" /\ TypeSearch
  \/ page = "Tasks" /\ PickStatus
  \/ page = "Tasks" /\ PickPriority
  \/ ClickDelete
  \/ page = "Tasks" /\ DeleteResponse
  \/ page = "Analytics" /\ AnalyticsNext

AppSpec == AppInit /\ [][AppNext]_vars

----------------------------------------------------------------------------
\* The session states the claims speak of.

Running == mounted /\ isRunning
Paused == mounted /\ ~isRunning /\ activeEntryId # Null
Idle == mounted /\ ~isRunning /\ activeEntryId = Null

----------------------------------------------------------------------------
\* C1: in every reachable state the table holds at most one open time entry
\* of the user.
C1_AtMostOneOpenEntry == Cardinality(OpenEntries) <= 1

\* C1, the state the claim excludes: two entries open at once while the view
\* shows an idle timer.
C1_TwoOpenEntries == Cardinality(OpenEntries) = 2 /\ Idle

----------------------------------------------------------------------------
\* C2: the view changes isRunning and activeEntryId only in the step in which
\* the repository confirms the insert (idle to running) or the update (to
\* idle); the step in which an insert or an update fails leaves isRunning,
\* currentTime, activeEntryId and the table as they were, so an entry that
\* was open and referenced before a failed stop is open and referenced after.
C2_TransitionOnlyOnConfirm ==
  [][ /\ \A r \in Requests :
           (startTimerResolved(r, FALSE) \/ stopTimerResolved(r, FALSE))
             => UNCHANGED <<viewVars, timerVars, intervalVars, time_entries>>
      /\ \A r \in Requests :
           (stopTimerResolved(r, FALSE) /\ r.id \in OpenEntries /\ activeEntryId = r.id)
             => (IsOpen(time_entries'[r.id]) /\ activeEntryId' = r.id)
      /\ (~isRunning /\ isRunning')
           => \E r \in Requests : startTimerResolved(r, TRUE)
      /\ (activeEntryId = Null /\ activeEntryId' # Null)
           => \E r \in Requests : startTimerResolved(r, TRUE)
      /\ (mounted' /\ activeEntryId # Null /\ activeEntryId' = Null)
           => \E r \in Requests : stopTimerResolved(r, TRUE)
    ]_vars

\* C2, a stop has failed while the timer was running: the entry is open, the
\* view references it, the counter kept its value.
C2_FailedStopKeepsState ==
  /\ toast = "Failed to stop timer."
  /\ isRunning /\ currentTime > 0
  /\ activeEntryId \in OpenEntries

----------------------------------------------------------------------------
\* C3: stopTimer on a referenced entry sends one update of that entry with
\* end_time = now and duration = the ticks fired while running since the
\* start; when the update is confirmed on an open entry, that row and no
\* other takes the end_time and duration sent, whatever ticks fired in
\* between, and the view that called stop is idle with no entry referenced.
C3_StopPersistsElapsed ==
  [][ /\ (mounted /\ activeEntryId # Null /\ stopTimer)
           => \E r \in BagToSet(pending') :
                /\ pending' = pending (+) One(r)
                /\ r.kind = "update" /\ r.id = activeEntryId
                /\ r.patch.end_time = now
                /\ r.patch.duration = ticks
      /\ \A r \in Requests :
           (stopTimerResolved(r, TRUE) /\ r.id \in OpenEntries)
             => /\ DOMAIN time_entries' = DOMAIN time_entries
                /\ \A i \in DOMAIN time_entries :
                     time_entries'[i] =
                       IF i = r.id
                       THEN [task_id |-> time_entries[i].task_id,
                             start_time |-> time_entries[i].start_time,
                             end_time |-> r.patch.end_time,
                             duration |-> r.patch.duration]
                       ELSE time_entries[i]
                /\ r.patch.duration >= 0
                /\ r.live => (~isRunning' /\ activeEntryId' = Null)
    ]_vars

\* C3, two ticks then a confirmed stop: the entry is closed with duration 2
\* and the view is idle.
C3_TwoTicksThenStop ==
  /\ toast = "Timer stopped"
  /\ Idle
  /\ \E i \in DOMAIN time_entries :
       IsClosed(time_entries[i]) /\ time_entries[i].duration = 2

----------------------------------------------------------------------------
\* C4: startTimer with a task selected sends exactly one insert, of a row
\* with task_id = the selected task, start_time = now and no end_time or
\* duration, and writes nothing yet; when the insert is confirmed the table
\* grows by exactly that row, and the view that called start is running with
\* currentTime = 0 and activeEntryId = the id of the new row.
C4_StartInsertsOneOpenEntry ==
  [][ /\ (mounted /\ selectedTaskId # "" /\ startTimer)
           => /\ \E r \in BagToSet(pending') :
                   /\ pending' = pending (+) One(r)
                   /\ r.kind = "insert"
                   /\ r.row = [task_id |-> selectedTaskId, start_time |-> now,
                               end_time |-> Null, duration |-> Null]
              /\ UNCHANGED time_entries
      /\ \A r \in Requests :
           startTimerResolved(r, TRUE)
             => /\ time_entries' =
                     Append(time_entries,
                            [task_id |-> r.row.task_id, start_time |-> r.row.start_time,
                             end_time |-> Null, duration |-> Null])
                /\ r.live => /\ isRunning'
                             /\ currentTime' = 0
                             /\ activeEntryId' = Len(time_entries) + 1
    ]_vars

\* C4, a start from idle has been confirmed: one open row of the selected
\* task, started at the time of the click, referenced by a running view.
C4_StartedFromIdle ==
  /\ toast = "Timer started"
  /\ isRunning /\ currentTime = 0
  /\ Len(time_entries) = 1 /\ activeEntryId = 1
  /\ time_entries[1] = [task_id |-> selectedTaskId, start_time |-> 1,
                        end_time |-> Null, duration |-> Null]
  /\ pending = EmptyBag

----------------------------------------------------------------------------
\* C5: startTimer called with no task selected raises the destructive toast
\* "Select a task", sends no request and leaves the view, the timer state,
\* the interval and the table as they were.
C5_StartWithoutTaskRejected ==
  [][ (mounted /\ selectedTaskId = "" /\ startTimer)
        => /\ toast' = "Select a task"
           /\ toast' \in Destructive
           /\ UNCHANGED <<viewVars, timerVars, intervalVars, repoVars>>
    ]_vars

\* C5, start has been called with no task selected and has been rejected.
C5_RejectedStart ==
  /\ mounted /\ selectedTaskId = ""
  /\ toast = "Select a task"
  /\ pending = EmptyBag /\ time_entries = <<>>

----------------------------------------------------------------------------
\* C6: stopTimer called with no entry referenced signals an error (a
\* destructive toast), sends no request and leaves the state as it was.
C6_StopWithoutEntryFails ==
  [][ (mounted /\ activeEntryId = Null /\ stopTimer)
        => /\ toast' \in Destructive
           /\ UNCHANGED <<viewVars, timerVars, intervalVars, repoVars>>
    ]_vars

\* C6, what the code does there: the step sends nothing and changes nothing.
C6_StopWithoutEntryIsSilent ==
  [][ (mounted /\ activeEntryId = Null /\ stopTimer)
        => /\ toast' = NoToast
           /\ UNCHANGED <<viewVars, timerVars, intervalVars, repoVars>>
    ]_vars

----------------------------------------------------------------------------
\* C7: in every paused state the program can take a step that sets the timer
\* running again on the same entry, with the counter at its frozen value and
\* with no row inserted and no request sent.
C7_ResumeEnabledWhenPaused ==
  Paused =>
    ENABLED (/\ Next
             /\ isRunning'
             /\ activeEntryId' = activeEntryId
             /\ currentTime' = currentTime
             /\ UNCHANGED repoVars)

\* C7, a paused state: an open entry is referenced, the counter stands at a
\* value above 0 and no interval is scheduled.
C7_PausedState ==
  /\ Paused /\ currentTime > 0 /\ intervals = {}
  /\ activeEntryId \in OpenEntries

----------------------------------------------------------------------------
\* C8: pauseTimer called while running leaves no interval scheduled and the
\* timer not running, sends no request and leaves the counter, the table and
\* activeEntryId as they were; called while not running it changes nothing.
C8_PauseFreezesCounter ==
  [][ /\ (mounted /\ isRunning /\ pauseTimer)
           => /\ ~isRunning' /\ intervals' = {}
              /\ UNCHANGED <<viewVars, currentTime, activeEntryId, repoVars>>
      /\ (mounted /\ ~isRunning /\ pauseTimer)
           => UNCHANGED <<viewVars, timerVars, intervalVars, repoVars, now, ticks>>
    ]_vars

\* C8, the timer has been paused after ticking: the entry is still open and
\* referenced, the counter kept its value, no interval is left.
C8_PausedAfterTicks ==
  /\ Paused /\ currentTime = 2 /\ ticks = 2 /\ intervals = {}
  /\ activeEntryId \in OpenEntries
  /\ pending = EmptyBag /\ toast = NoToast

----------------------------------------------------------------------------
\* C9: across a step that stays in Running the counter does not decrease,
\* across a step that stays in Paused or stays in Idle it keeps its value,
\* and it changes only in a tick fired while running.
C9_CounterMovesOnlyWhileRunning ==
  [][ /\ (Running /\ Running') => currentTime' >= currentTime
      /\ ((Paused /\ Paused') \/ (Idle /\ Idle')) => currentTime' = currentTime
      /\ ((Running /\ Running') /\ currentTime' # currentTime) => Tick
    ]_vars

\* C9, a state the claim excludes: an idle view whose counter is above 0.
C9_IdleCounterMoved == Idle /\ currentTime > 0

----------------------------------------------------------------------------
\* C10: no interval is scheduled in a state where the timer is not running
\* or the view is unmounted, and at most one interval is scheduled.
C10_NoIntervalUnlessRunning ==
  /\ ~Running => intervals = {}
  /\ Cardinality(intervals) <= 1

\* C10, a state the claim excludes: the stop is confirmed, the view is idle
\* and the interval is still scheduled.
C10_IntervalAfterStop == Idle /\ intervals # {} /\ toast = "Timer stopped"

----------------------------------------------------------------------------
\* C11: in every reachable state each row of the tasks table has completed_at
\* set exactly when completed is true; a click on the completion button of a
\* listed task, stale or not, sends one update whose completed is the
\* negation of the value listed and whose completed_at is the time of the
\* click when that negation is true and absent when it is false; a confirmed
\* update writes exactly these two values into the row of that task and
\* leaves every other row as it was.
C11_CompletedAtIffCompleted ==
  /\ [](\A i \in DOMAIN tasks_table :
          (tasks_table[i].completed_at # Null) <=> tasks_table[i].completed)
  /\ [][ /\ \A i \in DOMAIN Listed :
              toggleTaskComplete(Listed[i].id, Listed[i].completed)
                => \E r \in BagToSet(taskPending') :
                     /\ taskPending' = taskPending (+) One(r)
                     /\ r.kind = "toggle" /\ r.id = Listed[i].id
                     /\ r.patch.completed = ~Listed[i].completed
                     /\ r.patch.completed_at =
                          IF Listed[i].completed THEN Null ELSE now
         /\ \A r \in TaskRequests :
              toggleTaskCompleteResolved(r, TRUE)
                => /\ DOMAIN tasks_table' = DOMAIN tasks_table
                   /\ \A j \in DOMAIN tasks_table :
                        tasks_table'[j] =
                          IF tasks_table[j].id = r.id
                          THEN [tasks_table[j] EXCEPT
                                  !.completed = r.patch.completed,
                                  !.completed_at = r.patch.completed_at]
                          ELSE tasks_table[j]
                   /\ r.patch.completed => r.patch.completed_at # Null
                   /\ ~r.patch.completed => r.patch.completed_at = Null
       ]_vars

\* C11, a toggle issued from a list that had not been refetched has been
\* confirmed: the page lists the task as completed already, the update that
\* completes it again has just been applied, and the row carries the time of
\* that later click.
C11_StaleToggleConfirmed ==
  /\ toast = "Task completed!"
  /\ \E i \in DOMAIN tasks_table : \E j \in DOMAIN pageTasks :
       /\ pageTasks[j].id = tasks_table[i].id
       /\ pageTasks[j].completed /\ pageTasks[j].completed_at = TicksPerDay
       /\ tasks_table[i].completed /\ tasks_table[i].completed_at = TicksPerDay + 1

----------------------------------------------------------------------------
\* C12: whenever the Tasks page has loaded, filteredTasks is the subsequence
\* of tasks, in the order of tasks, of the rows that satisfy at once: the
\* search predicate on the trimmed search text when that text is not empty,
\* completed for status 'completed', not completed for status 'pending', and
\* priority equal to the priority filter when it is not 'all'.
C12_FilterIsConjunction ==
  (page = "Tasks" /\ ~loading) =>
    LET q == toLowerCase(trim(searchQuery))
        keeps(task) ==
          /\ trim(searchQuery) # <<>> =>
               \/ includes(toLowerCase(task.title), q)
               \/ /\ task.description # NoDescription
                  /\ includes(toLowerCase(task.description), q)
          /\ statusFilter = "completed" => task.completed
          /\ statusFilter = "pending" => ~task.completed
          /\ priorityFilter # "all" => task.priority = priorityFilter
    IN  filteredTasks = SelectSeq(pageTasks, keeps)

\* C12, what holds of the code: the same whenever the search text carries no
\* leading or trailing whitespace.
C12_FilterIsConjunctionWhenUnpadded ==
  (page = "Tasks" /\ ~loading /\ trim(searchQuery) = searchQuery) =>
    LET q == toLowerCase(searchQuery)
        keeps(task) ==
          /\ searchQuery # <<>> =>
               \/ includes(toLowerCase(task.title), q)
               \/ /\ task.description # NoDescription
                  /\ includes(toLowerCase(task.description), q)
          /\ statusFilter = "completed" => task.completed
          /\ statusFilter = "pending" => ~task.completed
          /\ priorityFilter # "all" => task.priority = priorityFilter
    IN  filteredTasks = SelectSeq(pageTasks, keeps)

\* C12, a state the claim excludes: with status 'pending' and a search text
\* padded with a blank, a pending task whose title holds the trimmed text is
\* not among the filtered tasks.
C12_PendingMatchDropped ==
  /\ page = "Tasks" /\ ~loading
  /\ searchQuery = <<" ", "a">> /\ statusFilter = "pending" /\ priorityFilter = "all"
  /\ \E i \in DOMAIN pageTasks :
       /\ pageTasks[i].title = <<"A", "b">> /\ ~pageTasks[i].completed
       /\ \A j \in DOMAIN filteredTasks : filteredTasks[j] # pageTasks[i]

----------------------------------------------------------------------------
\* C13: with status 'all', priority 'all' and a search text that is empty or
\* made of whitespace only, filteredTasks is tasks, row for row in the same
\* order.
C13_NoFilterIsIdentity ==
  (page = "Tasks" /\ ~loading /\ trim(searchQuery) = <<>>
     /\ statusFilter = "all" /\ priorityFilter = "all")
    => filteredTasks = pageTasks

\* C13, a blank has been typed over two different rows, none of which holds
\* a blank in its title or description, and both are still listed.
C13_BlankQueryKeepsAll ==
  /\ page = "Tasks" /\ ~loading
  /\ searchQuery = <<" ">> /\ statusFilter = "all" /\ priorityFilter = "all"
  /\ Len(pageTasks) = 2 /\ pageTasks[1].completed # pageTasks[2].completed
  /\ \A i \in DOMAIN pageTasks : pageTasks[i].title = <<"A", "b">>
  /\ filteredTasks = pageTasks

----------------------------------------------------------------------------
\* C14: with status 'all' and priority 'all' and a search text that is not
\* empty once trimmed, a row is listed exactly when its title, or its
\* description when it has one, contains the trimmed search text ignoring
\* case; so padding the search text with whitespace changes nothing.
C14_SearchOnTrimmedText ==
  (page = "Tasks" /\ ~loading /\ trim(searchQuery) # <<>>
     /\ statusFilter = "all" /\ priorityFilter = "all") =>
    LET q == toLowerCase(trim(searchQuery))
        keeps(task) ==
          \/ includes(toLowerCase(task.title), q)
          \/ /\ task.description # NoDescription
             /\ includes(toLowerCase(task.description), q)
    IN  filteredTasks = SelectSeq(pageTasks, keeps)

\* C14, what holds of the code: the match is against the search text as
\* typed, ignoring case, on the title and on a description that is present.
C14_SearchOnTypedText ==
  (page = "Tasks" /\ ~loading /\ trim(searchQuery) # <<>>
     /\ statusFilter = "all" /\ priorityFilter = "all") =>
    LET q == toLowerCase(searchQuery)
        keeps(task) ==
          \/ includes(toLowerCase(task.title), q)
          \/ /\ task.description # NoDescription
             /\ includes(toLowerCase(task.description), q)
    IN  filteredTasks = SelectSeq(pageTasks, keeps)

\* C14, a state the claim excludes: the search text " a" lists nothing
\* although a row is titled "Ab".
C14_PaddedQueryDropsMatch ==
  /\ page = "Tasks" /\ ~loading
  /\ searchQuery = <<" ", "a">> /\ statusFilter = "all" /\ priorityFilter = "all"
  /\ \E i \in DOMAIN pageTasks : pageTasks[i].title = <<"A", "b">>
  /\ filteredTasks = <<>>

----------------------------------------------------------------------------
\* C15: when fetchAnalytics has completed over no task and no time entry
\* (empty tables, or no row in the window), the daily completion structure
\* holds a bucket with completed = 0 and total = 0 for each of the
\* WindowDays + 1 days that end with the request day, the daily completion
\* series and the time series shown each hold a zero bucket for each of the
\* DisplayDays days that end with the request day, and the weekly stats are
\* all 0.
C15_EmptyInputZeroFilled ==
  (analyticsCall.stage = "done" /\ analyticsCall.tasks = <<>>
     /\ analyticsCall.timeEntries = <<>>) =>
    LET last == DateOf(analyticsCall.endDate)
    IN  /\ analyticsCall.dailyData =
             [k \in 1..(WindowDays + 1) |->
                [date |-> last - (WindowDays + 1) + k, completed |-> 0, total |-> 0]]
        /\ analytics.dailyCompletion =
             [k \in 1..DisplayDays |->
                [date |-> Weekday(last - DisplayDays + k), completed |-> 0, total |-> 0]]
        /\ analytics.timeSpent =
             [k \in 1..DisplayDays |->
                [date |-> Weekday(last - DisplayDays + k), minutes |-> 0]]
        /\ analytics.weeklyStats =
             [tasksCompleted |-> 0, timeTracked |-> 0, averageTimePerTask |-> 0,
              completionRate |-> 0]

\* C15, what holds of the code: over no task and no time entry, with the two
\* ends of the window read at the same instant, the daily completion
\* buckets and the weekly stats are as the claim says.
C15_EmptyInputZeroCompletion ==
  (analyticsCall.stage = "done" /\ analyticsCall.tasks = <<>>
     /\ analyticsCall.timeEntries = <<>>
     /\ analyticsCall.startDate = MinusDays(analyticsCall.endDate, WindowDays)) =>
    LET last == DateOf(analyticsCall.endDate)
    IN  /\ analyticsCall.dailyData =
             [k \in 1..(WindowDays + 1) |->
                [date |-> last - (WindowDays + 1) + k, completed |-> 0, total |-> 0]]
        /\ analytics.dailyCompletion =
             [k \in 1..DisplayDays |->
                [date |-> Weekday(last - DisplayDays + k), completed |-> 0, total |-> 0]]
        /\ analytics.weeklyStats =
             [tasksCompleted |-> 0, timeTracked |-> 0, averageTimePerTask |-> 0,
              completionRate |-> 0]

\* C15, a state the claim excludes: the snapshot of empty tables, the window
\* read at one instant, has a time series with no bucket at all.
C15_EmptyTimeSeries ==
  /\ analyticsCall.stage = "done"
  /\ tasks_table = <<>> /\ time_entries = <<>>
  /\ analyticsCall.startDate = MinusDays(analyticsCall.endDate, WindowDays)
  /\ Len(analytics.dailyCompletion) = DisplayDays
  /\ analytics.timeSpent = <<>>

----------------------------------------------------------------------------
\* C16: when fetchAnalytics has completed, the time series shown holds one
\* bucket for each of the DisplayDays days that end with the request day, in
\* the order of the days, and the minutes of a day are the sum over the
\* closed entries of the table started that day of their duration in
\* minutes, each rounded; this whatever the order in which the entries were
\* returned.
C16_TimeSeriesOfTrailingDays ==
  analyticsCall.stage = "done" =>
    LET last == DateOf(analyticsCall.endDate)
        RECURSIVE MinutesOn(_, _)
        MinutesOn(day, i) ==
          IF i = 0 THEN 0
          ELSE MinutesOn(day, i - 1)
               + (IF /\ time_entries[i].duration # Null
                     /\ DateOf(time_entries[i].start_time) = day
                  THEN (2 * time_entries[i].duration + 60) \div 120
                  ELSE 0)
    IN  analytics.timeSpent =
          [k \in 1..DisplayDays |->
             [date |-> Weekday(last - DisplayDays + k),
              minutes |-> MinutesOn(last - DisplayDays + k, Len(time_entries))]]

\* C16, what holds of the code: the time data hold one bucket for each day
\* on which a closed entry fetched was started, and no other, and its
\* minutes are the sum of the rounded minutes of these entries.
C16_TimeDataSumsRoundedMinutes ==
  analyticsCall.stage = "done" =>
    LET fetched == analyticsCall.timeEntries
        RECURSIVE MinutesOn(_, _)
        MinutesOn(day, i) ==
          IF i = 0 THEN 0
          ELSE MinutesOn(day, i - 1)
               + (IF DateOf(fetched[i].start_time) = day
                  THEN (2 * fetched[i].duration + 60) \div 120
                  ELSE 0)
        timeData == analyticsCall.timeData
    IN  /\ \A i \in DOMAIN fetched : fetched[i].duration # Null
        /\ {timeData[k].date : k \in DOMAIN timeData}
             = {DateOf(fetched[i].start_time) : i \in DOMAIN fetched}
        /\ \A k \in DOMAIN timeData : \A j \in DOMAIN timeData :
             timeData[k].date = timeData[j].date => k = j
        /\ \A k \in DOMAIN timeData :
             timeData[k].minutes = MinutesOn(timeData[k].date, Len(fetched))

\* C16, a state the claim excludes: two entries of 600 and 900 seconds
\* started on the request day give that day 25 minutes, and the series
\* shown holds that one bucket only.
C16_OneBucketSeries ==
  /\ analyticsCall.stage = "done"
  /\ Len(time_entries) = 2
  /\ \A i \in DOMAIN time_entries : DateOf(time_entries[i].start_time) = DateOf(Request)
  /\ {time_entries[i].duration : i \in DOMAIN time_entries} = {600, 900}
  /\ analytics.timeSpent = << [date |-> Weekday(DateOf(Request)), minutes |-> 25] >>

----------------------------------------------------------------------------
\* C17: when fetchAnalytics has completed, averageTimePerTask is 0 if
\* tasksCompleted is 0, and otherwise the quotient of the seconds of the
\* closed entries of the table started at or after weekStart by 60 times
\* tasksCompleted, rounded once to the nearest integer, halves upwards.
C17_AverageRoundedOnce ==
  analyticsCall.stage = "done" =>
    LET RECURSIVE Seconds(_)
        Seconds(i) ==
          IF i = 0 THEN 0
          ELSE Seconds(i - 1)
               + (IF /\ time_entries[i].duration # Null
                     /\ time_entries[i].start_time >= analyticsCall.weekStart
                  THEN time_entries[i].duration
                  ELSE 0)
        done == analytics.weeklyStats.tasksCompleted
        total == Seconds(Len(time_entries))
    IN  analytics.weeklyStats.averageTimePerTask =
          IF done = 0 THEN 0
          ELSE (2 * total + 60 * done) \div (2 * 60 * done)

\* C17, one completed task and one entry of 1500 seconds: the average is 25.
C17_OneTaskOneEntry ==
  /\ analyticsCall.stage = "done"
  /\ Len(tasks_table) = 1 /\ tasks_table[1].completed
  /\ Len(time_entries) = 1 /\ time_entries[1].duration = 1500
  /\ analytics.weeklyStats.tasksCompleted = 1
  /\ analytics.weeklyStats.averageTimePerTask = 25

----------------------------------------------------------------------------
\* C18: when fetchAnalytics has completed, completionRate is 0 if no task
\* fetched was created at or after weekStart, and otherwise 100 times the
\* number of these tasks that are completed divided by their number,
\* rounded to the nearest integer, halves upwards; it lies between 0 and
\* 100; every value of the category breakdown is 0 or more.
C18_RateRoundedHalfUp ==
  analyticsCall.stage = "done" =>
    LET inWeek(task) == task.created_at >= analyticsCall.weekStart
        weekTasks == SelectSeq(analyticsCall.tasks, inWeek)
        isCompleted(task) == task.completed
        done == Len(SelectSeq(weekTasks, isCompleted))
        rate == analytics.weeklyStats.completionRate
    IN  /\ analytics.weeklyStats.tasksCompleted = done
        /\ rate = IF Len(weekTasks) = 0 THEN 0
                  ELSE (2 * 100 * done + Len(weekTasks)) \div (2 * Len(weekTasks))
        /\ 0 <= rate /\ rate <= 100
        /\ \A k \in DOMAIN analytics.categoryBreakdown :
             analytics.categoryBreakdown[k].value >= 0

\* C18, what holds of the code: the rate is 0 without a task in the week,
\* lies between 0 and 100 and is within 1 of the exact percentage; the
\* values of the category breakdown are above 0.
C18_RateWithinBounds ==
  analyticsCall.stage = "done" =>
    LET inWeek(task) == task.created_at >= analyticsCall.weekStart
        weekTasks == SelectSeq(analyticsCall.tasks, inWeek)
        isCompleted(task) == task.completed
        done == Len(SelectSeq(weekTasks, isCompleted))
        rate == analytics.weeklyStats.completionRate
    IN  /\ analytics.weeklyStats.tasksCompleted = done
        /\ Len(weekTasks) = 0 => rate = 0
        /\ Len(weekTasks) > 0 =>
             /\ 2 * rate * Len(weekTasks) <= 2 * 100 * done + Len(weekTasks)
             /\ 2 * rate * Len(weekTasks) >= 2 * 100 * done - Len(weekTasks)
        /\ 0 <= rate /\ rate <= 100
        /\ \A k \in DOMAIN analytics.categoryBreakdown :
             analytics.categoryBreakdown[k].value > 0

\* C18, a state the claim excludes: 23 of the 40 tasks of the week are
\* completed, which is 57.5 percent, and the rate shown is 57.
C18_HalfRoundedDown ==
  /\ analyticsCall.stage = "done"
  /\ Len(analyticsCall.tasks) = 40
  /\ analytics.weeklyStats.tasksCompleted = 23
  /\ analytics.weeklyStats.completionRate = 57

----------------------------------------------------------------------------
\* C19: when fetchTasks of the Dashboard takes the rows of the table, the
\* stats it sets have totalTasks the number of rows, completedTasks the
\* number of completed rows and overdueTasks the number of rows not
\* completed whose due date is before the instant of the computation, the
\* same day or an earlier one.
C19_StatsCounts ==
  [][ (page = "Dashboard" /\ \E r \in Fetches : r.live /\ fetchPageTasks(r, TRUE)) =>
        LET rows == DOMAIN tasks_table
        IN  /\ stats'.totalTasks = Cardinality(rows)
            /\ stats'.completedTasks =
                 Cardinality({i \in rows : tasks_table[i].completed})
            /\ stats'.overdueTasks =
                 Cardinality({i \in rows : /\ ~tasks_table[i].completed
                                           /\ tasks_table[i].due_date # Null
                                           /\ tasks_table[i].due_date < now}) ]_vars

\* C19, what holds of the code: totalTasks and completedTasks are as the
\* claim says, and overdueTasks is the number of rows not completed whose
\* due date is before the start of the day of the computation.
C19_StatsCountsBeforeToday ==
  [][ (page = "Dashboard" /\ \E r \in Fetches : r.live /\ fetchPageTasks(r, TRUE)) =>
        LET rows == DOMAIN tasks_table
        IN  /\ stats'.totalTasks = Cardinality(rows)
            /\ stats'.completedTasks =
                 Cardinality({i \in rows : tasks_table[i].completed})
            /\ stats'.overdueTasks =
                 Cardinality({i \in rows : /\ ~tasks_table[i].completed
                                           /\ tasks_table[i].due_date # Null
                                           /\ tasks_table[i].due_date < StartOfDay(now)}) ]_vars

\* C19, a state the claim excludes: three tasks created the same day, the
\* last of them at the instant the Dashboard was routed, two completed and
\* one not completed that was due earlier that day, and the stats fetched
\* show 3, 2 and no overdue task.
C19_DueEarlierTodayNotOverdue ==
  /\ page = "Dashboard" /\ ~loading /\ taskPending = EmptyBag
  /\ now = TicksPerDay + 1
  /\ Len(tasks_table) = 3
  /\ \E i \in DOMAIN tasks_table : tasks_table[i].created_at = now
  /\ \E i \in DOMAIN tasks_table :
       /\ ~tasks_table[i].completed
       /\ tasks_table[i].due_date = TicksPerDay
       /\ \A j \in DOMAIN tasks_table : j # i => tasks_table[j].completed
  /\ stats.totalTasks = 3 /\ stats.completedTasks = 2 /\ stats.overdueTasks = 0

----------------------------------------------------------------------------
\* C20: when fetchAnalytics has completed, the daily completion structure
\* holds one bucket for each of the WindowDays + 1 days that end with the
\* request day; the total of a bucket is the number of tasks fetched that
\* were created that day and its completed the number of these that are
\* completed, never above the total; a task created outside the window
\* is in no bucket; the series shown is the last DisplayDays buckets, which
\* end with the request day.
C20_DailyBucketsOfWindow ==
  analyticsCall.stage = "done" =>
    LET last == DateOf(analyticsCall.endDate)
        fetched == analyticsCall.tasks
        Created(day) == {i \in DOMAIN fetched : DateOf(fetched[i].created_at) = day}
        Completed(day) == {i \in Created(day) : fetched[i].completed}
        Bucket(day) == [date |-> day, completed |-> Cardinality(Completed(day)),
                        total |-> Cardinality(Created(day))]
    IN  /\ analyticsCall.dailyData =
             [k \in 1..(WindowDays + 1) |-> Bucket(last - (WindowDays + 1) + k)]
        /\ analytics.dailyCompletion =
             [k \in 1..DisplayDays |->
                [date |-> Weekday(last - DisplayDays + k),
                 completed |-> Bucket(last - DisplayDays + k).completed,
                 total |-> Bucket(last - DisplayDays + k).total]]
        /\ \A k \in DOMAIN analyticsCall.dailyData :
             analyticsCall.dailyData[k].completed <= analyticsCall.dailyData[k].total

\* C20, what holds of the code: the buckets are those of the days from the
\* day of startDate to the last day whose instant of the loop is at or
\* before endDate, each with the counts of the tasks fetched that were
\* created that day, and the series shown is the last DisplayDays of them.
C20_DailyBucketsOfLoop ==
  analyticsCall.stage = "done" =>
    LET first == DateOf(analyticsCall.startDate)
        days == (analyticsCall.endDate - analyticsCall.startDate) \div TicksPerDay + 1
        fetched == analyticsCall.tasks
        Created(day) == {i \in DOMAIN fetched : DateOf(fetched[i].created_at) = day}
        Completed(day) == {i \in Created(day) : fetched[i].completed}
        Bucket(day) == [date |-> day, completed |-> Cardinality(Completed(day)),
                        total |-> Cardinality(Created(day))]
    IN  /\ analyticsCall.dailyData = [k \in 1..days |-> Bucket(first + k - 1)]
        /\ analytics.dailyCompletion =
             [k \in 1..DisplayDays |->
                [date |-> Weekday(first + days - 1 - DisplayDays + k),
                 completed |-> Bucket(first + days - 1 - DisplayDays + k).completed,
                 total |-> Bucket(first + days - 1 - DisplayDays + k).total]]
        /\ \A k \in DOMAIN analyticsCall.dailyData :
             analyticsCall.dailyData[k].completed <= analyticsCall.dailyData[k].total

\* C20, a state the claim excludes: startDate was read an instant after
\* endDate, a task fetched was created on the request day, and the last
\* bucket is the one of the day before, so that the task is counted nowhere.
C20_RequestDayDropped ==
  /\ analyticsCall.stage = "done"
  /\ analyticsCall.startDate > MinusDays(analyticsCall.endDate, WindowDays)
  /\ \E i \in DOMAIN analyticsCall.tasks :
       DateOf(analyticsCall.tasks[i].created_at) = DateOf(analyticsCall.endDate)
  /\ Len(analyticsCall.dailyData) = WindowDays
  /\ analyticsCall.dailyData[WindowDays].date = DateOf(analyticsCall.endDate) - 1
  /\ \A k \in DOMAIN analytics.dailyCompletion : analytics.dailyCompletion[k].total = 0

----------------------------------------------------------------------------
\* C21: when fetchAnalytics has completed, the category breakdown holds one
\* entry for each category name carried by a task fetched and no other; the
\* value of an entry is the number of tasks fetched that carry its category
\* and its color the color of that category; the values sum to the number
\* of tasks fetched that carry a category.
C21_CategoryHistogram ==
  analyticsCall.stage = "done" =>
    LET fetched == analyticsCall.tasks
        breakdown == analytics.categoryBreakdown
        categorised == {i \in DOMAIN fetched : fetched[i].category # NoCategory}
        Carrying(name) == {i \in categorised : fetched[i].category.name = name}
        RECURSIVE SumOfValues(_)
        SumOfValues(k) == IF k = 0 THEN 0 ELSE SumOfValues(k - 1) + breakdown[k].value
    IN  /\ {breakdown[k].name : k \in DOMAIN breakdown}
             = {fetched[i].category.name : i \in categorised}
        /\ \A k \in DOMAIN breakdown : \A j \in DOMAIN breakdown :
             breakdown[k].name = breakdown[j].name => k = j
        /\ \A k \in DOMAIN breakdown :
             /\ breakdown[k].value = Cardinality(Carrying(breakdown[k].name))
             /\ \A i \in Carrying(breakdown[k].name) :
                  breakdown[k].color = fetched[i].category.color
        /\ SumOfValues(Len(breakdown)) = Cardinality(categorised)

\* C21, a task of a category and a task without one have been fetched: the
\* breakdown holds the one entry of the category, with value 1.
C21_UncategorisedLeftOut ==
  /\ analyticsCall.stage = "done"
  /\ Len(analyticsCall.tasks) = 2
  /\ \E i \in DOMAIN analyticsCall.tasks : analyticsCall.tasks[i].category = NoCategory
  /\ \E i \in DOMAIN analyticsCall.tasks : analyticsCall.tasks[i].category = Categories[2]
  /\ analytics.categoryBreakdown =
       << [name |-> Categories[2].name, value |-> 1, color |-> Categories[2].color] >>

----------------------------------------------------------------------------
\* C22: in every reachable state of a mounted view with no insert or update
\* in flight, the view references an entry if and only if the table holds an
\* open entry, and the entry referenced is an open entry of the table.
C22_SessionMirrorsRepository ==
  (mounted /\ pending = EmptyBag) =>
    /\ activeEntryId # Null <=> OpenEntries # {}
    /\ activeEntryId # Null => activeEntryId \in OpenEntries

\* C22, what holds of the code: an entry referenced by the view is an open
\* entry of the table, whatever is in flight.
C22_ReferencedEntryIsOpen ==
  activeEntryId # Null => activeEntryId \in OpenEntries

\* C22, a state the claim excludes: the view was torn down while its one
\* entry was open and has been rendered anew; nothing is in flight, the entry
\* is still open and the view references no entry.
C22_RemountedOverOpenEntry ==
  /\ mounted /\ pending = EmptyBag /\ ~fetchingTasks
  /\ Len(time_entries) = 1 /\ IsOpen(time_entries[1])
  /\ Idle /\ currentTime = 0

----------------------------------------------------------------------------
\* C23: in every reachable state each row of the time_entries table has
\* either no end_time and no duration, or both; a row with both has a
\* duration of 0 or more and an end_time at or after its start_time.
C23_EntriesOpenOrClosed ==
  \A i \in DOMAIN time_entries :
    LET e == time_entries[i]
    IN  /\ \/ (e.end_time = Null /\ e.duration = Null)
           \/ (e.end_time # Null /\ e.duration # Null)
        /\ (e.end_time # Null /\ e.duration # Null) =>
             (e.duration >= 0 /\ e.end_time >= e.start_time)

\* C23, the table holds an entry closed an instant after its start, with a
\* duration of one tick, and an entry that is still open.
C23_ClosedAndOpenEntry ==
  /\ \E i \in DOMAIN time_entries :
       /\ time_entries[i].start_time = 0 /\ time_entries[i].end_time = 1
       /\ time_entries[i].duration = 1
  /\ \E j \in DOMAIN time_entries :
       time_entries[j].end_time = Null /\ time_entries[j].duration = Null

----------------------------------------------------------------------------
\* C24: across every step, a row of the time_entries table that has an
\* end_time and a duration is still in the table and still has both.
C24_ClosedStaysClosed ==
  [][ \A i \in DOMAIN time_entries :
        IsClosed(time_entries[i]) =>
          (i \in DOMAIN time_entries' /\ IsClosed(time_entries'[i])) ]_vars

\* C24, a closed entry after a later start: the first entry is closed, the
\* view is running on a second one.
C24_ClosedThenStartedAgain ==
  /\ Len(time_entries) = 2
  /\ IsClosed(time_entries[1])
  /\ Running /\ activeEntryId = 2 /\ IsOpen(time_entries[2])

----------------------------------------------------------------------------
\* C26: across every step, a row of the time_entries table that has an
\* end_time and a duration keeps both values.
C26_ClosedEntryKeepsValues ==
  [][ \A i \in DOMAIN time_entries :
        IsClosed(time_entries[i]) =>
          /\ i \in DOMAIN time_entries'
          /\ time_entries'[i].end_time = time_entries[i].end_time
          /\ time_entries'[i].duration = time_entries[i].duration ]_vars

\* C26, what holds of the code: a closed row changes only in the step in
\* which a further update of that row is confirmed, and takes its values.
C26_ClosedEntryChangedBySecondStop ==
  [][ \A i \in DOMAIN time_entries :
        (IsClosed(time_entries[i]) /\ i \in DOMAIN time_entries'
           /\ time_entries'[i] # time_entries[i]) =>
          \E r \in Updates :
            /\ r.id = i /\ stopTimerResolved(r, TRUE)
            /\ time_entries'[i].end_time = r.patch.end_time
            /\ time_entries'[i].duration = r.patch.duration ]_vars

\* C26, a state the claim excludes: the first stop has closed the entry
\* with duration 0, and the update of a second stop, clicked one tick later
\* while the first was in flight, is about to overwrite it with duration 1.
C26_SecondStopInFlight ==
  /\ Idle /\ toast = "Timer stopped"
  /\ \E r \in Updates :
       /\ r.id \in DOMAIN time_entries
       /\ IsClosed(time_entries[r.id])
       /\ time_entries[r.id].duration = 0
       /\ r.patch.duration = 1

----------------------------------------------------------------------------
\* C27: in every reachable state in which the view references an entry, the
\* task selected is the task of that entry.
C27_SelectionIsTaskOfEntry ==
  (mounted /\ activeEntryId # Null) =>
    selectedTaskId = time_entries[activeEntryId].task_id

\* C27, what holds of the code: the task selected does not change across a
\* step from a running view to a running view.
C27_SelectionFixedWhileRunning ==
  [][ (Running /\ Running') => selectedTaskId' = selectedTaskId ]_vars

\* C27, a state the claim excludes: the timer is paused on its one entry,
\* which is open, and the task selected is not the task of that entry.
C27_SelectionChangedWhilePaused ==
  /\ Paused /\ pending = EmptyBag
  /\ Len(time_entries) = 1 /\ activeEntryId = 1 /\ IsOpen(time_entries[1])
  /\ selectedTaskId \in TaskIds
  /\ selectedTaskId # time_entries[1].task_id

----------------------------------------------------------------------------
\* C28: in every reachable state in which the view is mounted, not running
\* and references no entry, the elapsed counter is 0.
C28_IdleCounterIsZero == Idle => currentTime = 0

\* C28, what holds of the code: the counter of an idle view is 0 in the
\* state a confirmed stop leaves, and while the view stays idle it changes
\* only through a tick of an interval that is still scheduled or through a
\* further confirmed stop, which sets it to 0.
C28_IdleCounterMovedByTick ==
  [][ /\ (\E r \in Updates : r.live /\ stopTimerResolved(r, TRUE))
           => (Idle' /\ currentTime' = 0)
      /\ (Idle /\ Idle' /\ currentTime' # currentTime) =>
           \/ Tick /\ intervals # {}
           \/ currentTime' = 0 /\ \E r \in Updates : stopTimerResolved(r, TRUE)
    ]_vars

\* C28, a state the claim excludes: a tick has fired after the confirmed
\* stop reset the counter and before the effect cleared the interval; the
\* view is idle, nothing is scheduled or in flight, and the counter shows 1.
C28_IdleCounterStuckAtOne ==
  /\ Idle /\ currentTime = 1
  /\ intervals = {} /\ ~EffectPending
  /\ pending = EmptyBag /\ OpenEntries = {}
  /\ toast = NoToast

----------------------------------------------------------------------------
\* C29: two confirmed toggles of a task restore its completed value, and its
\* absent completed_at, whether or not the list was fetched between them.
\* The rows start not completed and the first confirmed toggle of a row
\* completes it, so this says that every confirmed toggle of a row leaves it
\* with the inverse of the completed value it had, and with no completed_at
\* when that value is false.
C29_ConfirmedToggleInverts ==
  [][ \A r \in Toggles :
        toggleTaskCompleteResolved(r, TRUE) =>
          \A i \in DOMAIN tasks_table :
            tasks_table[i].id = r.id =>
              /\ tasks_table'[i].completed = ~tasks_table[i].completed
              /\ ~tasks_table'[i].completed => tasks_table'[i].completed_at = Null
    ]_vars

\* C29, a state the claim excludes: a task listed as not completed was
\* toggled twice before the list was fetched again; both updates have been
\* confirmed, their two fetches are in flight, and the task is completed.
C29_ToggledTwiceStillCompleted ==
  /\ page = "Tasks" /\ ~loading
  /\ taskPending = (FetchRequest(TRUE) :> 2)
  /\ toast = "Task completed!"
  /\ \E i \in DOMAIN tasks_table : \E j \in DOMAIN pageTasks :
       /\ pageTasks[j].id = tasks_table[i].id
       /\ ~pageTasks[j].completed
       /\ tasks_table[i].completed
       /\ \A k \in DOMAIN tasks_table :
            k # i => (~tasks_table[k].completed /\ tasks_table[k].completed_at = Null)

----------------------------------------------------------------------------
\* C30: when fetchAnalytics has completed, tasksCompleted is the sum of
\* completed over the buckets of the daily completion series shown, and the
\* number of tasks fetched that were created at or after weekStart, by which
\* completionRate divides, is the sum of total over these buckets.
C30_WeeklyStatsMatchSeries ==
  analyticsCall.stage = "done" =>
    LET shown == analytics.dailyCompletion
        RECURSIVE SumOfCompleted(_), SumOfTotal(_)
        SumOfCompleted(k) == IF k = 0 THEN 0 ELSE SumOfCompleted(k - 1) + shown[k].completed
        SumOfTotal(k) == IF k = 0 THEN 0 ELSE SumOfTotal(k - 1) + shown[k].total
        weekTasks == {i \in DOMAIN analyticsCall.tasks :
                        analyticsCall.tasks[i].created_at >= analyticsCall.weekStart}
    IN  /\ analytics.weeklyStats.tasksCompleted = SumOfCompleted(Len(shown))
        /\ Cardinality(weekTasks) = SumOfTotal(Len(shown))

\* C30, what holds of the code: the two agree when the window was read at
\* one instant and every task fetched was created on one of the last
\* DisplayDays days.
C30_WeeklyStatsMatchRecentTasks ==
  (/\ analyticsCall.stage = "done"
   /\ analyticsCall.startDate = MinusDays(analyticsCall.endDate, WindowDays)
   /\ \A i \in DOMAIN analyticsCall.tasks :
        DateOf(analyticsCall.tasks[i].created_at)
          > DateOf(analyticsCall.endDate) - DisplayDays) =>
    LET shown == analytics.dailyCompletion
        RECURSIVE SumOfCompleted(_), SumOfTotal(_)
        SumOfCompleted(k) == IF k = 0 THEN 0 ELSE SumOfCompleted(k - 1) + shown[k].completed
        SumOfTotal(k) == IF k = 0 THEN 0 ELSE SumOfTotal(k - 1) + shown[k].total
        weekTasks == {i \in DOMAIN analyticsCall.tasks :
                        analyticsCall.tasks[i].created_at >= analyticsCall.weekStart}
    IN  /\ analytics.weeklyStats.tasksCompleted = SumOfCompleted(Len(shown))
        /\ Cardinality(weekTasks) = SumOfTotal(Len(shown))

\* C30, a state the claim excludes: the one task, completed, was created
\* WeekDays days before the request at the time of day of the request; the
\* window was read at one instant; tasksCompleted is 1 and the rate 100,
\* and every bucket shown is empty.
C30_EighthDayCounted ==
  /\ analyticsCall.stage = "done"
  /\ analyticsCall.startDate = MinusDays(analyticsCall.endDate, WindowDays)
  /\ Len(analyticsCall.tasks) = 1
  /\ analyticsCall.tasks[1].created_at = MinusDays(analyticsCall.endDate, WeekDays)
  /\ analytics.weeklyStats.tasksCompleted = 1
  /\ analytics.weeklyStats.completionRate = 100
  /\ Len(analytics.dailyCompletion) = DisplayDays
  /\ \A k \in DOMAIN analytics.dailyCompletion :
       analytics.dailyCompletion[k].total = 0 /\ analytics.dailyCompletion[k].completed = 0

----------------------------------------------------------------------------
----------------------------------------------------------------------------
\* C31: when fetchAnalytics has completed, the snapshot it has set is the
\* one it would have set had the tasks or the time entries been returned in
\* any other order: the same daily completion series, the same time series
\* with the same days in the same order, the same entries of the category
\* breakdown and the same weekly stats.
C31_SnapshotIgnoresOrder ==
  analyticsCall.stage = "done" =>
    \A taskList \in Orders(analyticsCall.tasks) :
      \A timeEntries \in Orders(analyticsCall.timeEntries) :
        LET other == Snapshot(taskList, timeEntries, analyticsCall.startDate,
                              analyticsCall.endDate, analyticsCall.weekStart)
            Entries(series) == {series[k] : k \in DOMAIN series}
        IN  /\ other.dailyCompletion = analytics.dailyCompletion
            /\ other.timeSpent = analytics.timeSpent
            /\ Entries(other.categoryBreakdown) = Entries(analytics.categoryBreakdown)
            /\ other.weeklyStats = analytics.weeklyStats

\* C31, what holds of the code: in any other order the daily completion
\* series, the entries of the category breakdown and the weekly stats are
\* the same, and the time data hold the same days with the same minutes.
C31_SnapshotIgnoresOrderButOfDays ==
  analyticsCall.stage = "done" =>
    \A taskList \in Orders(analyticsCall.tasks) :
      \A timeEntries \in Orders(analyticsCall.timeEntries) :
        LET other == Snapshot(taskList, timeEntries, analyticsCall.startDate,
                              analyticsCall.endDate, analyticsCall.weekStart)
            Entries(series) == {series[k] : k \in DOMAIN series}
        IN  /\ other.dailyCompletion = analytics.dailyCompletion
            /\ Entries(AddEntries(<<>>, timeEntries)) = Entries(analyticsCall.timeData)
            /\ Entries(other.categoryBreakdown) = Entries(analytics.categoryBreakdown)
            /\ other.weeklyStats = analytics.weeklyStats

\* C31, a state the claim excludes: an entry of 600 seconds of the request
\* day was returned before an entry of 1500 seconds of an earlier day, and
\* the time series shows the 10 minutes of the later day before the 25 of the
\* earlier one.
C31_LaterDayShownFirst ==
  /\ analyticsCall.stage = "done"
  /\ Len(analyticsCall.timeData) = 2
  /\ analyticsCall.timeData[1].date = DateOf(Request)
  /\ analyticsCall.timeData[2].date < DateOf(Request)
  /\ Len(analytics.timeSpent) = 2
  /\ analytics.timeSpent[1].minutes = 10
  /\ analytics.timeSpent[2].minutes = 25

====
